---- MODULE Spec2Model ----
(***************************************************************************)
(* Analysis scripts of the sustainable-LLM-chatbot replication package.    *)
(*                                                                         *)
(* Each analyzer is a batch pipeline: load -> preprocess_data -> analyses. *)
(* A specification below follows one analyzer's run_analysis; its initial  *)
(* states are the possible contents of the input file (bounded), and one   *)
(* action stands for one method of the analyzer.                           *)
(*                                                                         *)
(* Numbers.  A column value is a record [k, n, d]:                         *)
(*   k = "num"  the non-negative rational n/d in lowest terms,             *)
(*   k = "nan"  the float not-a-number (pandas' missing value),            *)
(*   k = "inf"  the float +infinity,                                       *)
(*   k = "str"  a JSON value that is not numeric (raw input only).         *)
(* Rationals are exact; binary rounding of floats is not represented.      *)
(* usageInWh inputs are multiples of 0.01 Wh.                              *)
(*                                                                         *)
(* Columns of the prompt table that no analysis below reads (responseText, *)
(* historyLimit, sentAt) and the std and median statistics are projected   *)
(* away.  createdAt is a whole number of hours since a Monday 00:00.       *)
(***************************************************************************)
EXTENDS Integers, Sequences, FiniteSets

VARIABLES
    analyzer,            \* the analyzer class whose run_analysis runs
    pc,                  \* position in the running analyzer's run_analysis
    prompts_found,       \* whether the data directory holds Prompts.json
    prompts,             \* self.prompts: the records of Prompts.json, in file order
    prompts_df,          \* self.prompts_df: the rows of the prompt table
    columns,             \* self.prompts_df.columns
    mode_analysis,       \* result of EnergyConsumptionAnalyzer.analyze_energy_consumption
    efficiency_analysis, \* analyze_token_efficiency / analyze_efficiency_metrics result
    token_efficiency,    \* analyze_performance_quality's token_efficiency table
    user_mode_analysis,  \* result of UserBehaviorAnalyzer.analyze_mode_switching
    daily_usage,         \* analyze_temporal_patterns' table by date
    hourly_usage,        \* analyze_temporal_patterns' table by hour
    dow_usage,           \* analyze_temporal_patterns' table by day of week
    conversation_analysis, \* result of analyze_conversation_patterns
    mode_stats,          \* the Mode Comparison rows of generate_summary_report
    cleaned_texts,       \* SustainabilityTextAnalyzer.cleaned_texts, each a token list
    lda_topics,          \* cluster_with_lda's dominant topic of each response
    lda_terms,           \* cluster_with_lda's top terms of each topic
    response_themes,     \* result of merge_into_themes
    frequency_data,      \* result of create_frequency_table
    lda_fit,             \* what LatentDirichletAllocation fits, by random_state
    runs,                \* completed calls of the text analyzer's run_analysis
    first_run,           \* the results of the first of them
    texts,               \* SustainabilityTextAnalyzer.texts, the raw responses
    script,              \* the script that was started
    config_file,         \* state of chart_styles.yaml in the working directory
    config,              \* ChartStyler.config
    written,             \* directories and files created so far
    files,               \* the files under the output directory and what they hold
    execution,           \* which execution of the script this is: first, second
    last_call,           \* the last ChartStyler operation and how it ended
    column,              \* the survey column handed to clean_likert_responses
    answers,             \* df[column]: one answer per respondent
    likert_data,         \* what clean_likert_responses returned
    bars,                \* the bars and y tick labels of the stacked bar chart
    cache,               \* ConfigLoader._cache
    config_files,        \* the .yaml files of the config directory
    last_load,           \* the last load_config or validate_config call
    succeeded            \* the names some load_config has succeeded for

pattern_vars == <<daily_usage, hourly_usage, dow_usage, conversation_analysis>>

report_vars == <<mode_stats>>

prompt_vars == <<prompts_found, prompts, prompts_df, columns, mode_analysis,
                 efficiency_analysis, token_efficiency, user_mode_analysis,
                 pattern_vars, report_vars>>

likert_vars == <<column, answers, likert_data, bars>>

loader_vars == <<cache, config_files, last_load, succeeded>>

survey_vars == <<likert_vars, loader_vars>>

text_vars == <<cleaned_texts, lda_topics, lda_terms, response_themes,
               frequency_data, lda_fit, runs, first_run, texts, survey_vars>>

styling_vars == <<script, config_file, config, written, files, execution,
                  last_call>>

vars == <<analyzer, pc, prompt_vars, pattern_vars,
                   text_vars, styling_vars>>

----------------------------------------------------------------------------
(* Bounds of the model *)

MaxPrompts == 2          \* records in Prompts.json (general inputs)

----------------------------------------------------------------------------
(* Float values *)

RECURSIVE GCD(_, _)
GCD(a, b) == IF b = 0 THEN a ELSE GCD(b, a % b)

Rat(n, d) == LET g == GCD(n, d) IN [k |-> "num", n |-> n \div g, d |-> d \div g]
Num(n) == [k |-> "num", n |-> n, d |-> 1]
NaN == [k |-> "nan", n |-> 0, d |-> 1]
Inf == [k |-> "inf", n |-> 0, d |-> 1]
NotNumeric == [k |-> "str", n |-> 0, d |-> 1]

\* k hundredths of a watt-hour
CentiWh(k) == Rat(k, 100)

IsNaN(v) == v.k = "nan"
IsNum(v) == v.k = "num"
IsZero(v) == v.k = "num" /\ v.n = 0

\* pd.to_numeric(col, errors='coerce'): a value that is not numeric becomes NaN
to_numeric(v) == IF v.k = "str" THEN NaN ELSE v

\* float addition (operands are never negative here)
Add(a, b) ==
    IF IsNaN(a) \/ IsNaN(b) THEN NaN
    ELSE IF a.k = "inf" \/ b.k = "inf" THEN Inf
    ELSE Rat(a.n * b.d + b.n * a.d, a.d * b.d)

\* float true division of two columns (numpy): x/0 = inf for x > 0, 0/0 = nan
Div(a, b) ==
    IF IsNaN(a) \/ IsNaN(b) THEN NaN
    ELSE IF IsZero(b) THEN (IF IsZero(a) THEN NaN ELSE Inf)
    ELSE IF b.k = "inf" THEN (IF a.k = "inf" THEN NaN ELSE Num(0))
    ELSE IF a.k = "inf" THEN Inf
    ELSE Rat(a.n * b.d, a.d * b.n)

\* to the nearest multiple of 1/scale, ties to even; NaN and inf stay
RoundTo(v, scale) ==
    IF v.k # "num" THEN v
    ELSE LET q == (v.n * scale) \div v.d
             r == (v.n * scale) % v.d
             up == \/ 2 * r > v.d
                   \/ (2 * r = v.d /\ q % 2 = 1)
         IN Rat(IF up THEN q + 1 ELSE q, scale)

\* DataFrame.round(4) and DataFrame.round(2)
Round4(v) == RoundTo(v, 10000)
Round2(v) == RoundTo(v, 100)

----------------------------------------------------------------------------
(* Series helpers *)

Range(s) == {s[i] : i \in DOMAIN s}

\* Series.count(): the values that are not NaN
Count(vals) == Cardinality({i \in DOMAIN vals : ~IsNaN(vals[i])})

RECURSIVE SumFrom(_, _)
SumFrom(vals, i) ==
    IF i > Len(vals) THEN Num(0)
    ELSE IF IsNaN(vals[i]) THEN SumFrom(vals, i + 1)
    ELSE Add(vals[i], SumFrom(vals, i + 1))

\* Series.sum(): NaN skipped, 0 for no values
Sum(vals) == SumFrom(vals, 1)

\* a mutant of Mean: the sum is divided by the length of the group
MeanOfAllRows(vals) ==
    IF Len(vals) = 0 THEN NaN ELSE Div(Sum(vals), Num(Len(vals)))

\* Series.mean(): NaN skipped, NaN for no values
Mean(vals) ==
    IF Count(vals) = 0 THEN NaN ELSE Div(Sum(vals), Num(Count(vals)))

\* a <= b for values that are not NaN
LessEq(a, b) ==
    IF b.k = "inf" THEN TRUE
    ELSE IF a.k = "inf" THEN FALSE
    ELSE a.n * b.d <= b.n * a.d

NonNaN(vals) == {vals[i] : i \in {j \in DOMAIN vals : ~IsNaN(vals[j])}}

\* Series.min() and Series.max(): NaN skipped, NaN for no values
Min(vals) ==
    IF NonNaN(vals) = {} THEN NaN
    ELSE CHOOSE v \in NonNaN(vals) : \A w \in NonNaN(vals) : LessEq(v, w)

Max(vals) ==
    IF NonNaN(vals) = {} THEN NaN
    ELSE CHOOSE v \in NonNaN(vals) : \A w \in NonNaN(vals) : LessEq(w, v)

\* the values of column c of rows
Col(rows, c) == [i \in DOMAIN rows |-> rows[i][c]]

----------------------------------------------------------------------------
(* The prompt table *)

\* the values the fields of a general input record are drawn from: a zero, a
\* non-zero and (for one column) a non-numeric value; the three codes of the
\* lookup and one code outside it
InputTokenInputs == {Num(0), Num(1), NotNumeric}
OutputTokenInputs == {Num(0), Num(1)}
EnergyInputs == {CentiWh(0), CentiWh(1)}
ChatModeInputs == {0, 1, 2, 3}

RawColumns == {"id", "userId", "conversationId", "chatMode", "isSent", "createdAt",
               "numberOfInputTokens", "numberOfOutputTokens", "usageInWh"}

\* the label of a row whose chatMode the lookup does not hold (pandas' NaN)
MissingName == "NaN"

\* a column that is not (yet) part of the table holds these in the row records
NoValue == [k |-> "none", n |-> 0, d |-> 1]
NoName == "none"

\* _load_json: the content of the file, or an empty list and a warning when the
\* file does not exist
_load_json(found, content) == IF found THEN content ELSE << >>

\* the cell of a record for a key; a record without the key has no such cell
Cell(rec, key) == IF key \in DOMAIN rec THEN rec[key] ELSE NoName

\* pd.DataFrame(self.prompts): one row per record, in file order; the id of a
\* record is its position in the file
DataFrame(recs) ==
    [i \in DOMAIN recs |->
        [id |-> Num(i),
         userId |-> Cell(recs[i], "userId"),
         conversationId |-> Cell(recs[i], "conversationId"),
         chatMode |-> Cell(recs[i], "chatMode"),
         isSent |-> Cell(recs[i], "isSent"),
         createdAt |-> Cell(recs[i], "createdAt"),
         numberOfInputTokens |-> Cell(recs[i], "numberOfInputTokens"),
         numberOfOutputTokens |-> Cell(recs[i], "numberOfOutputTokens"),
         usageInWh |-> Cell(recs[i], "usageInWh"),
         mode_name |-> NoName,
         hour |-> NoValue,
         day_of_week |-> NoName,
         date |-> NoValue,
         total_tokens |-> NoValue,
         energy_per_token |-> NoValue,
         tokens_per_wh |-> NoValue,
         input_output_ratio |-> NoValue,
         output_input_ratio |-> NoValue]]

\* the columns of pd.DataFrame(recs): the keys of the records; none for no record
FrameColumns(recs) ==
    IF recs = << >> THEN {}
    ELSE {"id"} \cup UNION {DOMAIN recs[i] : i \in DOMAIN recs}

\* pd.to_numeric(..., errors='coerce') on each numeric column the table has
CoerceNumeric(df, cols) ==
    [i \in DOMAIN df |->
        [df[i] EXCEPT
            !.numberOfInputTokens =
                IF "numberOfInputTokens" \in cols THEN to_numeric(@) ELSE @,
            !.numberOfOutputTokens =
                IF "numberOfOutputTokens" \in cols THEN to_numeric(@) ELSE @,
            !.usageInWh = IF "usageInWh" \in cols THEN to_numeric(@) ELSE @]]

\* a mutant of FilterSent: the filter keeps every row
FilterSentKeepsAll(df) == df

\* df[df['isSent'] == True]
FilterSent(df) == SelectSeq(df, LAMBDA r : r.isSent = TRUE)

mode_mapping == [c \in {0, 1, 2} |->
    IF c = 0 THEN "Energy Efficient" ELSE IF c = 1 THEN "Balanced" ELSE "Performance"]

\* Series.map(mode_mapping): a code that is no key of the mapping yields NaN
MapMode(c) == IF c \in DOMAIN mode_mapping THEN mode_mapping[c] ELSE MissingName

\* df['mode_name'] = df['chatMode'].map(mode_mapping)
AddModeNames(df) ==
    [i \in DOMAIN df |-> [df[i] EXCEPT !.mode_name = MapMode(df[i].chatMode)]]

\* the group keys of df.groupby('mode_name'): its values, NaN keys dropped
ModeGroupKeys(df) == {df[i].mode_name : i \in DOMAIN df} \ {MissingName}

\* the rows of one group, in table order
Group(df, c, key) == SelectSeq(df, LAMBDA r : r[c] = key)

----------------------------------------------------------------------------
(* EnergyConsumptionAnalyzer *)

\* preprocess_data: every step is guarded by the presence of its column
EnergyPreprocessed(df, cols) ==
    LET numeric == CoerceNumeric(df, cols)
        sent == IF "isSent" \in cols THEN FilterSent(numeric) ELSE numeric
    IN IF "chatMode" \in cols THEN AddModeNames(sent) ELSE sent

energy_preprocess_data ==
    /\ analyzer = "energy"
    /\ pc = "loaded"
    /\ prompts_df' = EnergyPreprocessed(prompts_df, columns)
    /\ columns' = IF "chatMode" \in columns THEN columns \cup {"mode_name"} ELSE columns
    /\ pc' = "preprocessed"
    /\ UNCHANGED <<styling_vars, report_vars, analyzer, prompts_found, prompts, mode_analysis, efficiency_analysis,
                   token_efficiency, user_mode_analysis, pattern_vars,
                   text_vars>>

\* groupby('mode_name').agg({...}).round(4), one row per group key
ModeAnalysis(df) ==
    [g \in ModeGroupKeys(df) |->
        LET rows == Group(df, "mode_name", g) IN
        [numberOfInputTokens_count |-> Count(Col(rows, "numberOfInputTokens")),
         numberOfInputTokens_mean |-> Round4(Mean(Col(rows, "numberOfInputTokens"))),
         numberOfOutputTokens_count |-> Count(Col(rows, "numberOfOutputTokens")),
         numberOfOutputTokens_mean |-> Round4(Mean(Col(rows, "numberOfOutputTokens"))),
         usageInWh_mean |-> Round4(Mean(Col(rows, "usageInWh"))),
         usageInWh_sum |-> Round4(Sum(Col(rows, "usageInWh")))]]

ModeAnalysisColumns == {"mode_name", "numberOfInputTokens", "numberOfOutputTokens",
                        "usageInWh"}

analyze_energy_consumption ==
    /\ analyzer = "energy"
    /\ pc = "preprocessed"
    /\ IF ModeAnalysisColumns \subseteq columns
       THEN /\ mode_analysis' = ModeAnalysis(prompts_df)
            /\ pc' = "energy_analyzed"
       ELSE \* groupby or agg of a column the table does not have
            /\ pc' = "KeyError"
            /\ UNCHANGED mode_analysis
    /\ UNCHANGED <<styling_vars, report_vars, analyzer, prompts_found, prompts, prompts_df, columns, efficiency_analysis,
                   token_efficiency, user_mode_analysis, pattern_vars,
                   text_vars>>

\* a mutant of TotalTokens: the input tokens counted twice
TotalTokensInputTwice(r) == Add(r.numberOfInputTokens, r.numberOfInputTokens)

\* numberOfInputTokens + numberOfOutputTokens
TotalTokens(r) == Add(r.numberOfInputTokens, r.numberOfOutputTokens)

\* the three efficiency columns of analyze_token_efficiency
WithTokenEfficiency(df) ==
    [i \in DOMAIN df |->
        LET total == TotalTokens(df[i]) IN
        [df[i] EXCEPT !.total_tokens = total,
                      !.energy_per_token = Div(df[i].usageInWh, total),
                      !.input_output_ratio =
                          Div(df[i].numberOfInputTokens, df[i].numberOfOutputTokens)]]

TokenEfficiencyAnalysis(df) ==
    [g \in ModeGroupKeys(df) |->
        LET rows == Group(df, "mode_name", g) IN
        [total_tokens_mean |-> Round4(Mean(Col(rows, "total_tokens"))),
         energy_per_token_mean |-> Round4(Mean(Col(rows, "energy_per_token"))),
         input_output_ratio_mean |-> Round4(Mean(Col(rows, "input_output_ratio")))]]

analyze_token_efficiency ==
    /\ analyzer = "energy"
    /\ pc = "energy_analyzed"
    /\ prompts_df' = WithTokenEfficiency(prompts_df)
    /\ columns' = columns \cup {"total_tokens", "energy_per_token", "input_output_ratio"}
    /\ efficiency_analysis' = TokenEfficiencyAnalysis(prompts_df')
    /\ pc' = "efficiency_analyzed"
    /\ UNCHANGED <<styling_vars, report_vars, analyzer, prompts_found, prompts, mode_analysis, token_efficiency,
                   user_mode_analysis, pattern_vars,
                   text_vars>>

\* the mode names in the order groupby('mode_name') puts its keys: sorted
SortedModeNames == <<"Balanced", "Energy Efficient", "Performance">>

\* mode_stats of generate_summary_report: one row per group, in groupby order
ModeStats(df) ==
    LET names == SelectSeq(SortedModeNames, LAMBDA m : m \in ModeGroupKeys(df)) IN
    [i \in DOMAIN names |->
        LET rows == Group(df, "mode_name", names[i]) IN
        [mode_name |-> names[i],
         usageInWh_count |-> Count(Col(rows, "usageInWh")),
         usageInWh_mean |-> Round4(Mean(Col(rows, "usageInWh"))),
         usageInWh_sum |-> Round4(Sum(Col(rows, "usageInWh"))),
         total_tokens_mean |-> Round4(Mean(Col(rows, "total_tokens"))),
         energy_per_token_mean |-> Round4(Mean(Col(rows, "energy_per_token")))]]

ModeStatsColumns == {"usageInWh", "mode_name", "total_tokens", "energy_per_token"}

\* the report prints mode_stats.to_string() under Mode Comparison
generate_summary_report ==
    /\ analyzer = "energy"
    /\ pc = "efficiency_analyzed"
    /\ IF ModeStatsColumns \subseteq columns
       THEN /\ mode_stats' = ModeStats(prompts_df)
            /\ pc' = "report_generated"
       ELSE /\ pc' = "KeyError"
            /\ UNCHANGED mode_stats
    /\ UNCHANGED <<styling_vars, analyzer, prompts_found, prompts, prompts_df,
                   columns, mode_analysis, efficiency_analysis, token_efficiency,
                   user_mode_analysis, pattern_vars, text_vars>>

\* the records Prompts.json may hold for the energy analysis
EnergyRecords ==
    [userId : {1}, conversationId : {1}, chatMode : ChatModeInputs,
     isSent : BOOLEAN, createdAt : {1},
     numberOfInputTokens : InputTokenInputs, numberOfOutputTokens : OutputTokenInputs,
     usageInWh : EnergyInputs]

\* x is a sequence over S of at most n elements
IsSeqUpTo(x, S, n) == \E m \in 0..n : x \in [1..m -> S]

SeqsUpTo(S, n) == UNION {[1..m -> S] : m \in 0..n}

NoTable == << >>

NoLoad == [op |-> "none", name |-> "none", raised |-> "none", read_file |-> FALSE,
           value |-> << >>]

\* no survey question is analysed and no configuration has been asked for
NoSurvey ==
    /\ column = {}
    /\ answers = << >>
    /\ likert_data = << >>
    /\ bars = << >>
    /\ cache = << >>
    /\ config_files = << >>
    /\ last_load = NoLoad
    /\ succeeded = {}

\* no report has been generated
NoReport == mode_stats = NoTable

\* the pattern tables before analyze_temporal_patterns
NoPatterns ==
    /\ daily_usage = NoTable
    /\ hourly_usage = NoTable
    /\ dow_usage = NoTable
    /\ conversation_analysis = NoTable

NoConfig == << >>

NoFiles == << >>

NoCall == [op |-> "none", arg |-> "none", raised |-> "none", value |-> << >>]

\* no script of the controlled experiment has been started
NoStyling ==
    /\ script = "none"
    /\ config_file = "absent"
    /\ config = NoConfig
    /\ written = {}
    /\ files = NoFiles
    /\ execution = 1
    /\ last_call = NoCall

\* the text analyzer's fields while a prompt analyzer runs
NoTexts ==
    /\ cleaned_texts = << >>
    /\ lda_topics = << >>
    /\ lda_terms = << >>
    /\ response_themes = NoTable
    /\ frequency_data = << >>
    /\ lda_fit = << >>
    /\ runs = 0
    /\ first_run = NoTable
    /\ texts = << >>

InitEnergy ==
    /\ analyzer = "energy"
    /\ prompts_found \in BOOLEAN
    /\ IF prompts_found THEN IsSeqUpTo(prompts, EnergyRecords, MaxPrompts)
       ELSE prompts = _load_json(prompts_found, << >>)
    /\ prompts_df = DataFrame(prompts)
    /\ columns = FrameColumns(prompts)
    /\ pc = "loaded"
    /\ mode_analysis = NoTable
    /\ efficiency_analysis = NoTable
    /\ token_efficiency = NoTable
    /\ user_mode_analysis = NoTable
    /\ NoReport
    /\ NoSurvey
    /\ NoPatterns
    /\ NoStyling
    /\ NoTexts

NextEnergy ==
    \/ energy_preprocess_data
    \/ analyze_energy_consumption
    \/ analyze_token_efficiency
    \/ generate_summary_report

SpecEnergy == InitEnergy /\ [][NextEnergy]_vars

MaxMalformedPrompts == 3 \* records in Prompts.json (inputs with malformed fields)

\* sent records of two modes whose token count or energy may be a value that
\* is not numeric
MalformedRecords ==
    [userId : {1}, conversationId : {1}, chatMode : {0, 1}, isSent : {TRUE},
     createdAt : {1}, numberOfInputTokens : {Num(1), Num(2), NotNumeric},
     numberOfOutputTokens : {Num(1)},
     usageInWh : {CentiWh(1), CentiWh(3), NotNumeric}]

InitMalformed ==
    /\ analyzer = "energy"
    /\ prompts_found = TRUE
    /\ IsSeqUpTo(prompts, MalformedRecords, MaxMalformedPrompts)
    /\ prompts_df = DataFrame(prompts)
    /\ columns = FrameColumns(prompts)
    /\ pc = "loaded"
    /\ mode_analysis = NoTable
    /\ efficiency_analysis = NoTable
    /\ token_efficiency = NoTable
    /\ user_mode_analysis = NoTable
    /\ NoReport
    /\ NoSurvey
    /\ NoPatterns
    /\ NoStyling
    /\ NoTexts

SpecMalformed == InitMalformed /\ [][NextEnergy]_vars

\* the columns one of which the records of a data set may lack
MissingColumnInputs == {"isSent", "chatMode", "usageInWh"}

\* record r without the key c
WithoutColumn(r, c) == [k \in DOMAIN r \ {c} |-> r[k]]

\* Prompts.json holds records none of which has one of the keys
InitMissingColumn ==
    /\ analyzer = "energy"
    /\ prompts_found = TRUE
    /\ \E c \in MissingColumnInputs :
           IsSeqUpTo(prompts, {WithoutColumn(r, c) : r \in EnergyRecords}, MaxPrompts)
    /\ prompts # << >>
    /\ prompts_df = DataFrame(prompts)
    /\ columns = FrameColumns(prompts)
    /\ pc = "loaded"
    /\ mode_analysis = NoTable
    /\ efficiency_analysis = NoTable
    /\ token_efficiency = NoTable
    /\ user_mode_analysis = NoTable
    /\ NoReport
    /\ NoSurvey
    /\ NoPatterns
    /\ NoStyling
    /\ NoTexts

SpecMissingColumn == InitMissingColumn /\ [][NextEnergy]_vars

----------------------------------------------------------------------------
(* PerformanceTradeoffAnalyzer *)

\* the derived columns of preprocess_data
WithPerformanceMetrics(df) ==
    [i \in DOMAIN df |->
        LET total == TotalTokens(df[i]) IN
        [df[i] EXCEPT !.total_tokens = total,
                      !.energy_per_token = Div(df[i].usageInWh, total),
                      !.tokens_per_wh = Div(total, df[i].usageInWh)]]

TradeoffPreprocessed(df, cols) ==
    LET numeric == CoerceNumeric(df, cols)
        sent == IF "isSent" \in cols THEN FilterSent(numeric) ELSE numeric
        named == IF "chatMode" \in cols THEN AddModeNames(sent) ELSE sent
    IN WithPerformanceMetrics(named)

\* preprocess_data reads createdAt, sentAt and the token and energy columns
\* without a guard
tradeoff_preprocess_data ==
    /\ analyzer = "tradeoff"
    /\ pc = "loaded"
    /\ IF {"createdAt", "numberOfInputTokens", "numberOfOutputTokens",
           "usageInWh"} \subseteq columns
       THEN /\ prompts_df' = TradeoffPreprocessed(prompts_df, columns)
            /\ columns' = columns \cup
                   (IF "chatMode" \in columns THEN {"mode_name"} ELSE {}) \cup
                   {"total_tokens", "energy_per_token", "tokens_per_wh"}
            /\ pc' = "preprocessed"
       ELSE /\ pc' = "KeyError"
            /\ UNCHANGED <<prompts_df, columns>>
    /\ UNCHANGED <<styling_vars, report_vars, analyzer, prompts_found, prompts, mode_analysis, efficiency_analysis,
                   token_efficiency, user_mode_analysis, pattern_vars,
                   text_vars>>

\* groupby('mode_name').agg({...}).round(4)
EfficiencyMetrics(df) ==
    [g \in ModeGroupKeys(df) |->
        LET rows == Group(df, "mode_name", g) IN
        [usageInWh_mean |-> Round4(Mean(Col(rows, "usageInWh"))),
         usageInWh_min |-> Round4(Min(Col(rows, "usageInWh"))),
         usageInWh_max |-> Round4(Max(Col(rows, "usageInWh"))),
         total_tokens_mean |-> Round4(Mean(Col(rows, "total_tokens"))),
         total_tokens_min |-> Round4(Min(Col(rows, "total_tokens"))),
         total_tokens_max |-> Round4(Max(Col(rows, "total_tokens"))),
         energy_per_token_mean |-> Round4(Mean(Col(rows, "energy_per_token"))),
         energy_per_token_min |-> Round4(Min(Col(rows, "energy_per_token"))),
         energy_per_token_max |-> Round4(Max(Col(rows, "energy_per_token"))),
         tokens_per_wh_mean |-> Round4(Mean(Col(rows, "tokens_per_wh"))),
         tokens_per_wh_min |-> Round4(Min(Col(rows, "tokens_per_wh"))),
         tokens_per_wh_max |-> Round4(Max(Col(rows, "tokens_per_wh"))),
         numberOfInputTokens_mean |-> Round4(Mean(Col(rows, "numberOfInputTokens"))),
         numberOfOutputTokens_mean |-> Round4(Mean(Col(rows, "numberOfOutputTokens")))]]

analyze_efficiency_metrics ==
    /\ analyzer = "tradeoff"
    /\ pc = "preprocessed"
    /\ IF "mode_name" \in columns
       THEN /\ efficiency_analysis' = EfficiencyMetrics(prompts_df)
            /\ pc' = "efficiency_analyzed"
       ELSE /\ pc' = "KeyError"
            /\ UNCHANGED efficiency_analysis
    /\ UNCHANGED <<styling_vars, report_vars, analyzer, prompts_found, prompts, prompts_df, columns, mode_analysis,
                   token_efficiency, user_mode_analysis, pattern_vars,
                   text_vars>>

\* df['output_input_ratio'] = numberOfOutputTokens / numberOfInputTokens
WithOutputInputRatio(df) ==
    [i \in DOMAIN df |->
        [df[i] EXCEPT !.output_input_ratio =
            Div(df[i].numberOfOutputTokens, df[i].numberOfInputTokens)]]

\* groupby('mode_name')['output_input_ratio'].agg([...]).round(2)
TokenEfficiency(df) ==
    [g \in ModeGroupKeys(df) |->
        LET ratio == Col(Group(df, "mode_name", g), "output_input_ratio") IN
        [mean |-> Round2(Mean(ratio)),
         min |-> Round2(Min(ratio)),
         max |-> Round2(Max(ratio))]]

analyze_performance_quality ==
    /\ analyzer = "tradeoff"
    /\ pc = "efficiency_analyzed"
    /\ prompts_df' = WithOutputInputRatio(prompts_df)
    /\ columns' = columns \cup {"output_input_ratio"}
    /\ token_efficiency' = TokenEfficiency(prompts_df')
    /\ pc' = "quality_analyzed"
    /\ UNCHANGED <<styling_vars, report_vars, analyzer, prompts_found, prompts, mode_analysis, efficiency_analysis,
                   user_mode_analysis, pattern_vars,
                   text_vars>>

\* the columns analyze_trade_offs reads: the correlation matrix and the
\* per-mode means (response_length is not part of the modelled records)
TradeOffColumns == {"usageInWh", "total_tokens", "energy_per_token", "tokens_per_wh",
                    "mode_name", "output_input_ratio"}

\* run_analysis drops the two tables analyze_trade_offs returns
analyze_trade_offs ==
    /\ analyzer = "tradeoff"
    /\ pc = "quality_analyzed"
    /\ pc' = IF TradeOffColumns \subseteq columns THEN "tradeoffs_analyzed"
             ELSE "KeyError"
    /\ UNCHANGED <<styling_vars, report_vars, analyzer, prompts_found, prompts,
                   prompts_df, columns, mode_analysis, efficiency_analysis,
                   token_efficiency, user_mode_analysis, pattern_vars, text_vars>>

\* the three records of the end-to-end scenario; the energy of the record that
\* has no tokens is left open
ScenarioZeroTokenEnergy == {CentiWh(0), CentiWh(1), CentiWh(50000)}

ScenarioRecord(mode, in, out, wh) ==
    [userId |-> 1, conversationId |-> 1, chatMode |-> mode, isSent |-> TRUE,
     createdAt |-> 1,
     numberOfInputTokens |-> Num(in), numberOfOutputTokens |-> Num(out),
     usageInWh |-> wh]

ScenarioPrompts ==
    {s \in [1..3 -> {ScenarioRecord(0, 0, 0, e) : e \in ScenarioZeroTokenEnergy}
                    \cup {ScenarioRecord(1, 100, 50, CentiWh(1)),
                          ScenarioRecord(2, 200, 100, CentiWh(2))}] :
        \A m \in 0..2 : \E i \in 1..3 : s[i].chatMode = m}

InitTradeoff ==
    /\ analyzer = "tradeoff"
    /\ prompts_found \in BOOLEAN
    /\ IF prompts_found
       THEN \/ IsSeqUpTo(prompts, EnergyRecords, MaxPrompts)
            \/ prompts \in ScenarioPrompts
       ELSE prompts = _load_json(prompts_found, << >>)
    /\ prompts_df = DataFrame(prompts)
    /\ columns = FrameColumns(prompts)
    /\ pc = "loaded"
    /\ mode_analysis = NoTable
    /\ efficiency_analysis = NoTable
    /\ token_efficiency = NoTable
    /\ user_mode_analysis = NoTable
    /\ NoReport
    /\ NoSurvey
    /\ NoPatterns
    /\ NoStyling
    /\ NoTexts

NextTradeoff ==
    \/ tradeoff_preprocess_data
    \/ analyze_efficiency_metrics
    \/ analyze_performance_quality
    \/ analyze_trade_offs

SpecTradeoff == InitTradeoff /\ [][NextTradeoff]_vars

----------------------------------------------------------------------------
(* UserBehaviorAnalyzer *)

MaxBehaviorPrompts == 3  \* records in Prompts.json (general inputs of this analyzer)

day_name == <<"Monday", "Tuesday", "Wednesday", "Thursday", "Friday",
              "Saturday", "Sunday">>

\* createdAt.dt.hour, createdAt.dt.day_name() and createdAt.dt.date
AddTimeFeatures(df) ==
    [i \in DOMAIN df |->
        [df[i] EXCEPT !.hour = Num(df[i].createdAt % 24),
                      !.day_of_week = day_name[((df[i].createdAt \div 24) % 7) + 1],
                      !.date = Num(df[i].createdAt \div 24)]]

BehaviorPreprocessed(df, cols) ==
    LET numeric == CoerceNumeric(df, cols)
        sent == IF "isSent" \in cols THEN FilterSent(numeric) ELSE numeric
        named == IF "chatMode" \in cols THEN AddModeNames(sent) ELSE sent
    IN AddTimeFeatures(named)

\* preprocess_data reads createdAt and sentAt without a guard
behavior_preprocess_data ==
    /\ analyzer = "behavior"
    /\ pc = "loaded"
    /\ IF "createdAt" \in columns
       THEN /\ prompts_df' = BehaviorPreprocessed(prompts_df, columns)
            /\ columns' = columns \cup {"hour", "day_of_week", "date"} \cup
                   (IF "chatMode" \in columns THEN {"mode_name"} ELSE {})
            /\ pc' = "preprocessed"
       ELSE /\ pc' = "KeyError"
            /\ UNCHANGED <<prompts_df, columns>>
    /\ UNCHANGED <<styling_vars, report_vars, analyzer, prompts_found, prompts, mode_analysis, efficiency_analysis,
                   token_efficiency, user_mode_analysis, pattern_vars,
                   text_vars>>

RECURSIVE SwitchesFrom(_, _)
SwitchesFrom(x, i) ==
    IF i > Len(x) THEN 0
    ELSE (IF x[i] # x[i - 1] THEN 1 ELSE 0) + SwitchesFrom(x, i + 1)

\* a mutant of ModeSwitches: every prompt is compared with the first one
ModeSwitchesFromFirst(x) == Cardinality({i \in 2..Len(x) : x[i] # x[1]})

\* a mutant of ModeSwitches: range(0, len(x)), which also compares the first
\* prompt with the last one
ModeSwitchesFromZero(x) ==
    Cardinality({i \in 1..Len(x) : x[i] # x[IF i = 1 THEN Len(x) ELSE i - 1]})

\* sum(1 for i in range(1, len(x)) if x[i] != x[i-1])
ModeSwitches(x) == SwitchesFrom(x, 2)

\* The entropy is a real number (sum of c[p] * log2(p) over primes p) / den,
\* held exactly as [den, coef]; the logarithms of the primes are linearly
\* independent over the rationals, so two values are equal exactly when their
\* reduced records are.
Primes == {2, 3, 5, 7}

RECURSIVE Valuation(_, _)
\* the exponent of the prime p in n >= 1
Valuation(p, n) == IF n % p = 0 THEN 1 + Valuation(p, n \div p) ELSE 0

RECURSIVE GCDOfSet(_)
GCDOfSet(S) ==
    IF S = {} THEN 0
    ELSE LET x == CHOOSE y \in S : TRUE IN GCD(GCDOfSet(S \ {x}), x)

Abs(n) == IF n < 0 THEN -n ELSE n

\* (sum of coef[p] * log2(p)) / den in lowest terms
LogValue(coef, den) ==
    LET g == GCDOfSet({Abs(coef[p]) : p \in Primes} \cup {den})
    IN [den |-> den \div g, coef |-> [p \in Primes |-> coef[p] \div g]]

\* total * (count/total) * np.log2(count/total), by prime
EntropyTerm(count, total) ==
    [p \in Primes |-> count * (Valuation(p, count) - Valuation(p, total))]

\* Counter(sequence): the occurrences of each value of the sequence
Counter(sequence) ==
    [v \in Range(sequence) |-> Cardinality({i \in DOMAIN sequence : sequence[i] = v})]

RECURSIVE SumTerms(_, _, _)
SumTerms(counts, keys, total) ==
    IF keys = {} THEN [p \in Primes |-> 0]
    ELSE LET v == CHOOSE w \in keys : TRUE
             rest == SumTerms(counts, keys \ {v}, total)
         IN [p \in Primes |-> EntropyTerm(counts[v], total)[p] + rest[p]]

\* a mutant of calculate_entropy: total is the number of distinct modes
calculate_entropy_distinct_total(sequence) ==
    LET counts == Counter(sequence)
        total == Cardinality(DOMAIN counts)
        terms == SumTerms(counts, DOMAIN counts, total)
    IN LogValue([p \in Primes |-> -terms[p]], total)

\* -sum((count/total) * np.log2(count/total) for count in counts.values())
calculate_entropy(sequence) ==
    LET counts == Counter(sequence)
        total == Len(sequence)
        terms == SumTerms(counts, DOMAIN counts, total)
    IN LogValue([p \in Primes |-> -terms[p]], total)

\* the group keys of groupby('userId')
UserKeys(df) == {df[i].userId : i \in DOMAIN df}

\* groupby('userId').agg(...) and the two derived columns, one row per user
UserModeAnalysis(df) ==
    [u \in UserKeys(df) |->
        LET mode_sequence == Col(Group(df, "userId", u), "chatMode") IN
        [total_prompts |-> Len(mode_sequence),
         modes_used |-> Cardinality(Range(mode_sequence)),
         mode_sequence |-> mode_sequence,
         mode_names |-> Col(Group(df, "userId", u), "mode_name"),
         mode_switches |-> ModeSwitches(mode_sequence),
         mode_entropy |-> calculate_entropy(mode_sequence)]]

analyze_mode_switching ==
    /\ analyzer = "behavior"
    /\ pc = "preprocessed"
    /\ IF {"userId", "chatMode", "mode_name"} \subseteq columns
       THEN /\ user_mode_analysis' = UserModeAnalysis(prompts_df)
            /\ pc' = "mode_switching_analyzed"
       ELSE /\ pc' = "KeyError"
            /\ UNCHANGED user_mode_analysis
    /\ UNCHANGED <<styling_vars, report_vars, analyzer, prompts_found, prompts, prompts_df, columns, mode_analysis,
                   efficiency_analysis, token_efficiency, pattern_vars,
                   text_vars>>

\* a mutant of GroupKeys: a key for every value of the unfiltered input
GroupKeysOfInput(df, c) ==
    LET all == AddTimeFeatures(DataFrame(prompts))
    IN {all[i][c] : i \in DOMAIN all}

\* the values of column c that occur in the table: the keys of df.groupby(c)
GroupKeys(df, c) == {df[i][c] : i \in DOMAIN df}

\* x.mode().iloc[0] if len(x) > 0 else None: the smallest of the most frequent
\* values
MostCommonValue(vals) ==
    LET times(v) == Cardinality({i \in DOMAIN vals : vals[i] = v})
        most == {v \in Range(vals) : \A w \in Range(vals) : times(w) <= times(v)}
    IN IF Len(vals) > 0 THEN CHOOSE v \in most : \A w \in most : v <= w
       ELSE "None"

\* groupby(...).agg 'first': the first value of the group that is not missing
First(vals, missing) ==
    LET valid == SelectSeq(vals, LAMBDA v : v # missing)
    IN IF valid = << >> THEN missing ELSE valid[1]

\* daily_usage: groupby('date').agg id count and three sums
DailyUsage(df) ==
    [date \in GroupKeys(df, "date") |->
        LET rows == Group(df, "date", date) IN
        [prompts_count |-> Count(Col(rows, "id")),
         total_energy |-> Sum(Col(rows, "usageInWh")),
         total_input_tokens |-> Sum(Col(rows, "numberOfInputTokens")),
         total_output_tokens |-> Sum(Col(rows, "numberOfOutputTokens"))]]

\* hourly_usage and dow_usage: groupby(c).agg id count, mean energy and the
\* most common mode
UsageBy(df, c) ==
    [key \in GroupKeys(df, c) |->
        LET rows == Group(df, c, key) IN
        [prompts_count |-> Count(Col(rows, "id")),
         avg_energy |-> Mean(Col(rows, "usageInWh")),
         most_common_mode |-> MostCommonValue(Col(rows, "chatMode"))]]

TemporalColumns == {"date", "hour", "day_of_week", "id", "usageInWh", "chatMode",
                    "numberOfInputTokens", "numberOfOutputTokens"}

analyze_temporal_patterns ==
    /\ analyzer = "behavior"
    /\ pc = "mode_switching_analyzed"
    /\ IF TemporalColumns \subseteq columns
       THEN /\ daily_usage' = DailyUsage(prompts_df)
            /\ hourly_usage' = UsageBy(prompts_df, "hour")
            /\ dow_usage' = UsageBy(prompts_df, "day_of_week")
            /\ pc' = "temporal_analyzed"
       ELSE /\ pc' = "KeyError"
            /\ UNCHANGED <<daily_usage, hourly_usage, dow_usage>>
    /\ UNCHANGED <<styling_vars, report_vars, analyzer, prompts_found, prompts, prompts_df, columns, mode_analysis,
                   efficiency_analysis, token_efficiency, user_mode_analysis,
                   conversation_analysis, text_vars>>

\* groupby('conversationId').agg(...).round(4) and the three derived columns;
\* duration_minutes is (end_time - start_time).dt.total_seconds() / 60
ConversationAnalysis(df) ==
    [c \in GroupKeys(df, "conversationId") |->
        LET rows == Group(df, "conversationId", c)
            prompt_count == Count(Col(rows, "id"))
            total_energy == Round4(Sum(Col(rows, "usageInWh")))
            total_input_tokens == Round4(Sum(Col(rows, "numberOfInputTokens")))
            total_output_tokens == Round4(Sum(Col(rows, "numberOfOutputTokens")))
            times == [i \in DOMAIN rows |-> Num(rows[i].createdAt)]
        IN [prompt_count |-> prompt_count,
            user_id |-> rows[1].userId,
            mode |-> rows[1].chatMode,
            mode_name |-> First(Col(rows, "mode_name"), MissingName),
            total_energy |-> total_energy,
            total_input_tokens |-> total_input_tokens,
            total_output_tokens |-> total_output_tokens,
            start_time |-> Min(times),
            end_time |-> Max(times),
            duration_minutes |-> Num((Max(times).n - Min(times).n) * 60),
            energy_per_prompt |-> Div(total_energy, Num(prompt_count)),
            tokens_per_prompt |->
                Div(Add(total_input_tokens, total_output_tokens), Num(prompt_count))]]

ConversationColumns == {"conversationId", "id", "userId", "chatMode", "mode_name",
                        "usageInWh", "numberOfInputTokens", "numberOfOutputTokens",
                        "createdAt"}

analyze_conversation_patterns ==
    /\ analyzer = "behavior"
    /\ pc = "temporal_analyzed"
    /\ IF ConversationColumns \subseteq columns
       THEN /\ conversation_analysis' = ConversationAnalysis(prompts_df)
            /\ pc' = "conversation_analyzed"
       ELSE /\ pc' = "KeyError"
            /\ UNCHANGED conversation_analysis
    /\ UNCHANGED <<styling_vars, report_vars, analyzer, prompts_found, prompts, prompts_df, columns, mode_analysis,
                   efficiency_analysis, token_efficiency, user_mode_analysis,
                   daily_usage, hourly_usage, dow_usage, text_vars>>

UserInputs == {1, 2}
TimeInputs == {1, 2}

\* the records Prompts.json may hold for the behaviour analysis
BehaviorRecords ==
    [userId : UserInputs, conversationId : {1}, chatMode : DOMAIN mode_mapping,
     isSent : BOOLEAN, createdAt : TimeInputs, numberOfInputTokens : {Num(1)},
     numberOfOutputTokens : {Num(1)}, usageInWh : {CentiWh(1)}]

\* one user's sent prompts with the given modes, created one after the other
PromptsOfModes(modes) ==
    [i \in DOMAIN modes |->
        [userId |-> 1, conversationId |-> 1, chatMode |-> modes[i],
         isSent |-> TRUE, createdAt |-> i,
         numberOfInputTokens |-> Num(1), numberOfOutputTokens |-> Num(1),
         usageInWh |-> CentiWh(1)]]

\* the mode sequences of the documented examples: a constant sequence of ten
\* prompts, [A,B,A,B], and ten prompts that use two modes five times each
ExampleModeSequences ==
    {[i \in 1..10 |-> a] : a \in {0, 1, 2}}
    \cup {<<a, b, a, b>> : a, b \in {0, 1, 2}}
    \cup {m \in [1..10 -> {1, 2}] : Cardinality({i \in 1..10 : m[i] = 1}) = 5}

InitBehavior ==
    /\ analyzer = "behavior"
    /\ prompts_found \in BOOLEAN
    /\ IF prompts_found
       THEN \/ IsSeqUpTo(prompts, BehaviorRecords, MaxBehaviorPrompts)
            \/ prompts \in {PromptsOfModes(m) : m \in ExampleModeSequences}
       ELSE prompts = _load_json(prompts_found, << >>)
    /\ prompts_df = DataFrame(prompts)
    /\ columns = FrameColumns(prompts)
    /\ pc = "loaded"
    /\ mode_analysis = NoTable
    /\ efficiency_analysis = NoTable
    /\ token_efficiency = NoTable
    /\ user_mode_analysis = NoTable
    /\ NoReport
    /\ NoSurvey
    /\ NoPatterns
    /\ NoStyling
    /\ NoTexts

NextBehavior ==
    \/ behavior_preprocess_data
    \/ analyze_mode_switching
    \/ analyze_temporal_patterns
    \/ analyze_conversation_patterns

SpecBehavior == InitBehavior /\ [][NextBehavior]_vars

MaxPatternPrompts == 2   \* records in Prompts.json (inputs of the pattern tables)

\* two users, the first with two conversations
ConversationOwner == <<1, 1, 2>>

\* times in two hours of one day and in the first of them on the next day
PatternTimes == {1, 2, 25}

\* the records Prompts.json may hold for the pattern tables
PatternRecords ==
    {[userId |-> ConversationOwner[c], conversationId |-> c, chatMode |-> m,
      isSent |-> sent, createdAt |-> t, numberOfInputTokens |-> Num(1),
      numberOfOutputTokens |-> Num(1), usageInWh |-> CentiWh(1)] :
        c \in DOMAIN ConversationOwner, m \in {0, 1}, sent \in BOOLEAN,
        t \in PatternTimes}

InitPatterns ==
    /\ analyzer = "behavior"
    /\ prompts_found \in BOOLEAN
    /\ IF prompts_found THEN IsSeqUpTo(prompts, PatternRecords, MaxPatternPrompts)
       ELSE prompts = _load_json(prompts_found, << >>)
    /\ prompts_df = DataFrame(prompts)
    /\ columns = FrameColumns(prompts)
    /\ pc = "loaded"
    /\ mode_analysis = NoTable
    /\ efficiency_analysis = NoTable
    /\ token_efficiency = NoTable
    /\ user_mode_analysis = NoTable
    /\ NoReport
    /\ NoSurvey
    /\ NoPatterns
    /\ NoStyling
    /\ NoTexts

SpecPatterns == InitPatterns /\ [][NextBehavior]_vars

----------------------------------------------------------------------------
(* SustainabilityTextAnalyzer *)

MaxResponses == 2        \* free-text responses of the survey
MaxWords == 2            \* tokens of one cleaned response

\* theme_mapping of merge_into_themes, in the order of the dictionary
theme_mapping == <<
    [name |-> "Awareness/Transparency",
     keywords |-> {"transparency", "awareness", "information", "disclosure",
                   "visible", "show"}],
    [name |-> "Policy/Tax/Offsets",
     keywords |-> {"tax", "policy", "offset", "fee", "regulation", "government",
                   "carbon"}],
    [name |-> "Model/Algorithm Efficiency",
     keywords |-> {"algorithm", "model", "efficiency", "optimization", "sparse",
                   "moe", "reinforcement"}],
    [name |-> "Infrastructure/Green Energy",
     keywords |-> {"infrastructure", "green", "energy", "data", "centre", "center",
                   "cooling", "renewable"}],
    [name |-> "Usage Scope/Limitations",
     keywords |-> {"limit", "entertainment", "meaningful", "purpose", "scope",
                   "restrict", "boundary"}],
    [name |-> "Pricing/Responsibility",
     keywords |-> {"pricing", "cost", "responsibility", "customer", "provider",
                   "service", "charge"}],
    [name |-> "Alternative Solutions",
     keywords |-> {"alternative", "google", "search", "tool", "deepl", "replace",
                   "substitute"}],
    [name |-> "Bias/Social Impact",
     keywords |-> {"bias", "social", "training", "data", "influence", "individual",
                   "dimension"}] >>

ThemeNames(ts) == [i \in DOMAIN ts |-> ts[i].name]

\* a mutant of KeywordThemes: the loop stops at the first theme that matches
KeywordThemesFirstOnly(cleaned_text) ==
    LET hit == SelectSeq(theme_mapping,
                         LAMBDA t : Range(cleaned_text) \cap t.keywords # {})
    IN IF hit = << >> THEN << >> ELSE <<hit[1].name>>

\* the first loop of merge_into_themes: every theme whose keywords meet
\* set(cleaned_text.split()), in the order of theme_mapping
KeywordThemes(cleaned_text) ==
    ThemeNames(SelectSeq(theme_mapping,
                         LAMBDA t : Range(cleaned_text) \cap t.keywords # {}))

\* a mutant of TopicThemes: the fallback loop without its break
TopicThemesNoBreak(topic_words) ==
    ThemeNames(SelectSeq(theme_mapping,
                         LAMBDA t : Range(topic_words) \cap t.keywords # {}))

\* the fallback loop: the first theme one of whose keywords is a top term of
\* the response's topic
TopicThemes(topic_words) ==
    LET hit == SelectSeq(theme_mapping,
                         LAMBDA t : Range(topic_words) \cap t.keywords # {})
    IN IF hit = << >> THEN << >> ELSE <<hit[1].name>>

\* lda_terms.get(topic_idx, [])
TermsOf(terms, topic_idx) ==
    IF topic_idx \in DOMAIN terms THEN terms[topic_idx] ELSE << >>

AssignedThemes(i, cleaned, topics, terms) ==
    LET by_keyword == KeywordThemes(cleaned[i])
        by_topic == IF by_keyword = << >> /\ i \in DOMAIN topics
                    THEN TopicThemes(TermsOf(terms, topics[i]))
                    ELSE by_keyword
    IN IF by_topic = << >> THEN <<"General">> ELSE by_topic

\* a mutant of FitLDA: the model is fitted from the generator's current state,
\* which the first run has advanced
FitLDAUnseeded(random_state) ==
    IF runs = 0 THEN lda_fit[random_state]
    ELSE [lda_fit[random_state] EXCEPT
              !.doc_topics = [i \in DOMAIN @ |-> 1 - @[i]]]

\* cluster_with_lda: the model fitted with random_state=42, its dominant
\* topic of each response and its top terms of each topic
FitLDA(random_state) == lda_fit[random_state]

cluster_with_lda ==
    /\ analyzer = "themes"
    /\ pc = "cleaned"
    /\ lda_topics' = FitLDA(42).doc_topics
    /\ lda_terms' = FitLDA(42).topic_terms
    /\ pc' = "clustered"
    /\ UNCHANGED <<styling_vars, survey_vars, analyzer, prompt_vars, cleaned_texts, response_themes,
                   frequency_data, lda_fit, runs, first_run, texts>>

merge_into_themes ==
    /\ analyzer = "themes"
    /\ pc = "clustered"
    /\ response_themes' =
           [i \in DOMAIN cleaned_texts |->
               [themes |-> AssignedThemes(i, cleaned_texts, lda_topics, lda_terms)]]
    /\ pc' = "themes_merged"
    /\ UNCHANGED <<styling_vars, survey_vars, analyzer, prompt_vars, cleaned_texts, lda_topics, lda_terms,
                   frequency_data, lda_fit, runs, first_run, texts>>

RECURSIVE AllThemes(_, _)
\* the theme labels in the order the counting loop meets them
AllThemes(themes_of, i) ==
    IF i > Len(themes_of) THEN << >>
    ELSE themes_of[i].themes \o AllThemes(themes_of, i + 1)

RECURSIVE FirstSeen(_)
\* the keys of theme_counts in insertion order
FirstSeen(labels) ==
    IF labels = << >> THEN << >>
    ELSE LET front == FirstSeen(SubSeq(labels, 1, Len(labels) - 1))
             last == labels[Len(labels)]
         IN IF last \in Range(front) THEN front ELSE Append(front, last)

\* theme_counts[theme]
ThemeCount(labels, theme) == Cardinality({i \in DOMAIN labels : labels[i] = theme})

RECURSIVE MostCommon(_, _)
\* Counter.most_common(): by decreasing count, equal counts in insertion order
MostCommon(keys, labels) ==
    IF keys = << >> THEN << >>
    ELSE LET front == MostCommon(SubSeq(keys, 1, Len(keys) - 1), labels)
             last == keys[Len(keys)]
             ahead == SelectSeq(front, LAMBDA k :
                          ThemeCount(labels, k) >= ThemeCount(labels, last))
             behind == SelectSeq(front, LAMBDA k :
                          ThemeCount(labels, k) < ThemeCount(labels, last))
         IN ahead \o <<last>> \o behind

\* round((count / total_responses) * 100, 1)
Percentage(count, total_responses) == RoundTo(Rat(count * 100, total_responses), 10)

FrequencyTable(themes_of) ==
    LET labels == AllThemes(themes_of, 1)
        order == MostCommon(FirstSeen(labels), labels)
    IN [k \in DOMAIN order |->
           [Theme |-> order[k],
            Count |-> ThemeCount(labels, order[k]),
            Percentage |-> Percentage(ThemeCount(labels, order[k]),
                                      Len(themes_of))]]

create_frequency_table ==
    /\ analyzer = "themes"
    /\ pc = "themes_merged"
    /\ frequency_data' = FrequencyTable(response_themes)
    /\ pc' = "frequency_tabled"
    /\ UNCHANGED <<styling_vars, survey_vars, analyzer, prompt_vars, cleaned_texts, lda_topics, lda_terms,
                   response_themes, lda_fit, runs, first_run, texts>>

\* run_analysis is called again on the same input file: load_data and
\* clean_all_texts assign self.texts and self.cleaned_texts anew from it
run_analysis_again ==
    /\ analyzer = "themes"
    /\ pc = "frequency_tabled"
    /\ runs = 0
    /\ first_run' = [response_themes |-> response_themes,
                     frequency_data |-> frequency_data]
    /\ runs' = 1
    /\ pc' = "cleaned"
    /\ UNCHANGED <<styling_vars, survey_vars, analyzer, prompt_vars, cleaned_texts, lda_topics, lda_terms,
                   response_themes, frequency_data, lda_fit, texts>>

\* the tokens of the cleaned responses: a keyword of one theme, a keyword of two
\* themes and a word of no theme
Vocabulary == {"transparency", "data", "people"}

\* the topics of the topic model and the top terms a topic may have
Topics == {0, 1}
TopTermInputs == {<<"people">>, <<"tax", "data">>}

\* three responses of one theme each, and three that share their themes
ExampleResponses ==
    {<< <<"transparency">>, <<"people">>, <<"people">> >>,
     << <<"data">>, <<"data">>, <<"transparency">> >>}

InitThemes ==
    /\ analyzer = "themes"
    /\ \/ IsSeqUpTo(cleaned_texts, SeqsUpTo(Vocabulary, MaxWords), MaxResponses)
       \/ cleaned_texts \in ExampleResponses
    /\ lda_fit \in [{42} -> [doc_topics : [DOMAIN cleaned_texts -> Topics],
                             topic_terms : [Topics -> TopTermInputs]]]
    /\ lda_topics = << >>
    /\ lda_terms = << >>
    /\ response_themes = NoTable
    /\ frequency_data = << >>
    /\ runs = 0
    /\ first_run = NoTable
    /\ texts = << >>
    /\ pc = "cleaned"
    /\ prompts_found = FALSE
    /\ prompts = << >>
    /\ prompts_df = << >>
    /\ columns = {}
    /\ mode_analysis = NoTable
    /\ efficiency_analysis = NoTable
    /\ token_efficiency = NoTable
    /\ user_mode_analysis = NoTable
    /\ NoReport
    /\ NoSurvey
    /\ NoPatterns
    /\ NoStyling

NextThemes ==
    \/ cluster_with_lda
    \/ merge_into_themes
    \/ create_frequency_table
    \/ run_analysis_again

SpecThemes == InitThemes /\ [][NextThemes]_vars

----------------------------------------------------------------------------
(* SustainabilityTextAnalyzer.preprocess_text *)
(* Here a text is a sequence of one-character strings.                     *)

MaxTextWords == 3        \* words of one raw response

UpperCase == <<"A", "B", "C", "D", "E", "F", "G", "H", "I", "J", "K", "L", "M",
               "N", "O", "P", "Q", "R", "S", "T", "U", "V", "W", "X", "Y", "Z">>
LowerCase == <<"a", "b", "c", "d", "e", "f", "g", "h", "i", "j", "k", "l", "m",
               "n", "o", "p", "q", "r", "s", "t", "u", "v", "w", "x", "y", "z">>
Digits == {"0", "1", "2", "3", "4", "5", "6", "7", "8", "9"}

\* str.lower() of one character
LowerChar(c) ==
    IF c \in Range(UpperCase)
    THEN LowerCase[CHOOSE i \in DOMAIN UpperCase : UpperCase[i] = c]
    ELSE c

\* the classes \w and \s of the regular expressions
IsWordChar(c) == c \in Range(UpperCase) \cup Range(LowerCase) \cup Digits \cup {"_"}
IsSpace(c) == c = " "

\* text.lower()
Lower(text) == [i \in DOMAIN text |-> LowerChar(text[i])]

\* re.sub(r'[^\w\s]', ' ', text)
RemoveSpecial(text) ==
    [i \in DOMAIN text |->
        IF IsWordChar(text[i]) \/ IsSpace(text[i]) THEN text[i] ELSE " "]

RECURSIVE CollapseSpaces(_)
\* re.sub(r'\s+', ' ', text)
CollapseSpaces(text) ==
    IF Len(text) <= 1 THEN text
    ELSE IF IsSpace(text[1]) /\ IsSpace(text[2]) THEN CollapseSpaces(Tail(text))
    ELSE <<text[1]>> \o CollapseSpaces(Tail(text))

\* str.strip() of a text whose runs of spaces are collapsed
Strip(text) ==
    LET first == IF text # << >> /\ IsSpace(text[1]) THEN 2 ELSE 1
        last == IF text # << >> /\ IsSpace(text[Len(text)])
                THEN Len(text) - 1 ELSE Len(text)
    IN SubSeq(text, first, last)

RECURSIVE SplitFrom(_, _, _)
\* the tokens of text[i..], word being the characters of the current token
SplitFrom(text, i, word) ==
    LET done == IF word = << >> THEN << >> ELSE <<word>> IN
    IF i > Len(text) THEN done
    ELSE IF IsSpace(text[i]) THEN done \o SplitFrom(text, i + 1, << >>)
    ELSE SplitFrom(text, i + 1, Append(word, text[i]))

\* word_tokenize of a text of word characters and single spaces, and
\* str.split(): the maximal runs without a space
word_tokenize(text) == SplitFrom(text, 1, << >>)

\* entries of stopwords.words('english')
stop_words ==
    {<<"a">>, <<"i">>, <<"s">>, <<"t">>, <<"a", "n">>, <<"a", "s">>,
     <<"t", "h", "e">>, <<"a", "n", "d">>, <<"c", "a", "n">>,
     <<"w", "i", "l", "l">>}

\* WordNetLemmatizer.lemmatize(token): the shortest WordNet noun among the token
\* and its de-inflected forms, the token itself when there is none
lemmatize(token) ==
    CASE token = <<"c", "a", "n", "s">> -> <<"c", "a", "n">>
      [] token = <<"a", "d", "s">> -> <<"a", "d">>
      [] token = <<"m", "o", "d", "e", "l", "s">> -> <<"m", "o", "d", "e", "l">>
      [] OTHER -> token

\* the condition of the token filter
KeepToken(token) == token \notin stop_words /\ Len(token) > 2

RECURSIVE Join(_)
\* ' '.join(tokens)
Join(tokens) ==
    IF tokens = << >> THEN << >>
    ELSE IF Len(tokens) = 1 THEN tokens[1]
    ELSE tokens[1] \o <<" ">> \o Join(Tail(tokens))

preprocess_text(text) ==
    LET cleaned == Strip(CollapseSpaces(RemoveSpecial(Lower(text))))
        tokens == SelectSeq(word_tokenize(cleaned), KeepToken)
    IN Join([i \in DOMAIN tokens |-> lemmatize(tokens[i])])

clean_all_texts ==
    /\ analyzer = "cleaning"
    /\ pc = "loaded"
    /\ cleaned_texts' = [i \in DOMAIN texts |-> preprocess_text(texts[i])]
    /\ pc' = "cleaned"
    /\ UNCHANGED <<styling_vars, survey_vars, analyzer, prompt_vars, lda_topics, lda_terms, response_themes,
                   frequency_data, lda_fit, runs, first_run, texts>>

\* words of a raw response: capitals, punctuation inside and after a word, an
\* underscore, a stopword, a short word and plurals
RawWords ==
    {<<"C", "a", "n", "s">>, <<"a", "d", "s">>, <<"t", "h", "e">>,
     <<"c", "o", "_", "2">>, <<"D", "a", "t", "a", ",">>, <<"A", "I">>,
     <<"e", "-", "m", "a", "i", "l">>, <<"M", "o", "d", "e", "l", "s">>}

\* the raw responses: up to MaxTextWords words, a space between two words
TextInputs == {Join(ws) : ws \in SeqsUpTo(RawWords, MaxTextWords)}

InitPreprocess ==
    /\ analyzer = "cleaning"
    /\ texts \in {<<t>> : t \in TextInputs}
    /\ cleaned_texts = << >>
    /\ pc = "loaded"
    /\ lda_topics = << >>
    /\ lda_terms = << >>
    /\ response_themes = NoTable
    /\ frequency_data = << >>
    /\ lda_fit = << >>
    /\ runs = 0
    /\ first_run = NoTable
    /\ prompts_found = FALSE
    /\ prompts = << >>
    /\ prompts_df = << >>
    /\ columns = {}
    /\ mode_analysis = NoTable
    /\ efficiency_analysis = NoTable
    /\ token_efficiency = NoTable
    /\ user_mode_analysis = NoTable
    /\ NoReport
    /\ NoSurvey
    /\ NoPatterns
    /\ NoStyling

NextPreprocess ==
    \/ clean_all_texts

SpecPreprocess == InitPreprocess /\ [][NextPreprocess]_vars

----------------------------------------------------------------------------
(* Properties of the controlled-experiment analyzers *)

\* preprocess_data has run
Preprocessed == pc \notin {"loaded", "KeyError"}

\* the records of the input file that were sent, in file order
SentPrompts == SelectSeq(prompts, LAMBDA r : r.isSent = TRUE)

RECURSIVE SumOver(_, _)
\* the sum of f[k] over the keys k
SumOver(f, keys) ==
    IF keys = {} THEN 0
    ELSE LET k == CHOOSE x \in keys : TRUE IN f[k] + SumOver(f, keys \ {k})

C2_GroupCountsSumToFiltered ==
    pc = "energy_analyzed" =>
        SumOver([g \in DOMAIN mode_analysis |->
                     mode_analysis[g].numberOfInputTokens_count],
                DOMAIN mode_analysis) = Len(prompts_df)

\* C3: wherever the total_tokens column exists, a row's total_tokens is the
\* integer sum of its two token counts (NaN when a count is NaN).
C3_TotalTokensIsSum ==
    "total_tokens" \in columns =>
        \A i \in DOMAIN prompts_df :
            LET r == prompts_df[i] IN
            IF IsNum(r.numberOfInputTokens) /\ IsNum(r.numberOfOutputTokens)
            THEN r.total_tokens =
                     Num(r.numberOfInputTokens.n + r.numberOfOutputTokens.n)
            ELSE IsNaN(r.total_tokens)

C3_Witness ==
    /\ "total_tokens" \in columns
    /\ \E i \in DOMAIN prompts_df :
           /\ prompts_df[i].numberOfInputTokens = Num(100)
           /\ prompts_df[i].numberOfOutputTokens = Num(50)
           /\ prompts_df[i].total_tokens = Num(150)
    /\ \E i \in DOMAIN prompts_df : prompts_df[i].numberOfInputTokens = Num(0)

\* C4: each division-based derived column is NaN in every row whose
\* denominator is zero, whatever the numerator is.
C4_ZeroDenominatorIsNaN ==
    \A i \in DOMAIN prompts_df :
        LET r == prompts_df[i] IN
        /\ ("energy_per_token" \in columns /\ IsZero(r.total_tokens))
               => IsNaN(r.energy_per_token)
        /\ ("tokens_per_wh" \in columns /\ IsZero(r.usageInWh))
               => IsNaN(r.tokens_per_wh)
        /\ ("output_input_ratio" \in columns /\ IsZero(r.numberOfInputTokens))
               => IsNaN(r.output_input_ratio)

\* C5: preprocess_data keeps every sent record, labels codes 0, 1, 2 with the
\* three mode names and every other code with an explicit "unknown".
C5_UnknownModeLabel ==
    Preprocessed =>
        /\ Len(prompts_df) = Len(SentPrompts)
        /\ \A i \in DOMAIN prompts_df :
               prompts_df[i].mode_name =
                   CASE prompts_df[i].chatMode = 0 -> "Energy Efficient"
                     [] prompts_df[i].chatMode = 1 -> "Balanced"
                     [] prompts_df[i].chatMode = 2 -> "Performance"
                     [] OTHER -> "unknown"

\* C9: for the three records of the scenario, grouping by mode yields the three
\* mode groups of one record each, the Energy Efficient group shows NaN for
\* energy-per-token, and the other two groups show 15000 tokens per Wh.
C9_Scenario ==
    (prompts \in ScenarioPrompts /\ pc = "efficiency_analyzed") =>
        /\ DOMAIN efficiency_analysis =
               {"Energy Efficient", "Balanced", "Performance"}
        /\ \A g \in DOMAIN efficiency_analysis :
               Len(Group(prompts_df, "mode_name", g)) = 1
        /\ IsNaN(efficiency_analysis["Energy Efficient"].energy_per_token_mean)
        /\ efficiency_analysis["Balanced"].tokens_per_wh_mean = Num(15000)
        /\ efficiency_analysis["Performance"].tokens_per_wh_mean = Num(15000)

\* the users that have a sent prompt
SentUsers == {SentPrompts[i].userId : i \in DOMAIN SentPrompts}

\* the sent prompts of user u, in file order
SentPromptsOf(u) == SelectSeq(SentPrompts, LAMBDA r : r.userId = u)

\* C6: analyze_mode_switching has one row per user with a sent prompt; its
\* mode_switches is the number of positions of the user's mode sequence whose
\* mode differs from the one before, 0 for a constant sequence and 3 for
\* [A,B,A,B].
C6_ModeSwitchCount ==
    pc = "mode_switching_analyzed" =>
        /\ DOMAIN user_mode_analysis = SentUsers
        /\ \A u \in DOMAIN user_mode_analysis :
               LET m == Col(SentPromptsOf(u), "chatMode")
                   switches == user_mode_analysis[u].mode_switches
               IN /\ switches = Cardinality({i \in 2..Len(m) : m[i] # m[i - 1]})
                  /\ Cardinality(Range(m)) = 1 => switches = 0
                  /\ (Len(m) = 4 /\ m[1] # m[2] /\ m[3] = m[1] /\ m[4] = m[2])
                         => switches = 3

C6_Witness ==
    /\ pc = "mode_switching_analyzed"
    /\ \E u \in DOMAIN user_mode_analysis :
           /\ user_mode_analysis[u].mode_sequence = <<0, 1, 0, 1>>
           /\ user_mode_analysis[u].mode_switches = 3

Orderings(n) == {p \in [1..n -> 1..n] : \A i, j \in 1..n : i # j => p[i] # p[j]}

\* m lists the modes of recs in an order of non-decreasing createdAt
IsChronological(m, recs) ==
    IF /\ m = Col(recs, "chatMode")
       /\ \A i, j \in DOMAIN recs : i < j => recs[i].createdAt <= recs[j].createdAt
    THEN TRUE
    ELSE \E p \in Orderings(Len(recs)) :
            /\ \A i, j \in DOMAIN recs :
                   i < j => recs[p[i]].createdAt <= recs[p[j]].createdAt
            /\ m = [i \in DOMAIN recs |-> recs[p[i]].chatMode]

\* C7: the mode sequence of each user row lists the user's sent prompts in the
\* chronological order of their timestamps, whatever their order in the file.
C7_ChronologicalSequence ==
    pc = "mode_switching_analyzed" =>
        \A u \in DOMAIN user_mode_analysis :
            IsChronological(user_mode_analysis[u].mode_sequence, SentPromptsOf(u))

\* log2(total) - (1/total) * sum of count * log2(count) over the modes, where a
\* mode that does not occur contributes nothing
ShannonEntropy(m) ==
    LET total == Len(m)
        count(v) == Cardinality({i \in DOMAIN m : m[i] = v})
        part(p, v) == IF count(v) = 0 THEN 0 ELSE count(v) * Valuation(p, count(v))
    IN LogValue([p \in Primes |->
                    total * Valuation(p, total)
                    - SumOver([v \in ChatModeInputs |-> part(p, v)], ChatModeInputs)],
                total)

ZeroBits == [den |-> 1, coef |-> [p \in Primes |-> 0]]
OneBit == [den |-> 1, coef |-> [p \in Primes |-> IF p = 2 THEN 1 ELSE 0]]

\* C8: mode_entropy of each user row is the base-2 Shannon entropy of the
\* distribution of the modes that occur in the user's sequence: 0 for a
\* single-mode sequence, 1 for two modes used equally often.
C8_ModeEntropy ==
    pc = "mode_switching_analyzed" =>
        \A u \in DOMAIN user_mode_analysis :
            LET m == Col(SentPromptsOf(u), "chatMode")
                entropy == user_mode_analysis[u].mode_entropy
                count(v) == Cardinality({i \in DOMAIN m : m[i] = v})
            IN /\ entropy = ShannonEntropy(m)
               /\ Cardinality(Range(m)) = 1 => entropy = ZeroBits
               /\ (/\ Cardinality(Range(m)) = 2
                   /\ \A v, w \in Range(m) : count(v) = count(w))
                      => entropy = OneBit

C8_Witness ==
    /\ pc = "mode_switching_analyzed"
    /\ \E u \in DOMAIN user_mode_analysis :
           /\ user_mode_analysis[u].total_prompts = 10
           /\ user_mode_analysis[u].modes_used = 2
           /\ user_mode_analysis[u].mode_entropy = OneBit

----------------------------------------------------------------------------
(* Properties of the theme classifier *)

\* the themes of the table whose keywords meet the tokens of response i
MatchingThemes(i) ==
    {theme_mapping[k].name :
        k \in {j \in DOMAIN theme_mapping :
                  theme_mapping[j].keywords \cap Range(cleaned_texts[i]) # {}}}

\* C10: merge_into_themes assigns to each response every theme whose keywords
\* meet its tokens and, when there is one, no other theme of the table; a
\* response with the token "transparency" gets "Awareness/Transparency".
C10_KeywordThemes ==
    pc = "themes_merged" =>
        \A i \in DOMAIN cleaned_texts :
            LET themes == Range(response_themes[i].themes) IN
            /\ MatchingThemes(i) \subseteq themes
            /\ MatchingThemes(i) # {} =>
                   themes \cap Range(ThemeNames(theme_mapping)) = MatchingThemes(i)
            /\ "transparency" \in Range(cleaned_texts[i]) =>
                   "Awareness/Transparency" \in themes

C10_Witness ==
    /\ pc = "themes_merged"
    /\ \E i \in DOMAIN cleaned_texts :
           /\ cleaned_texts[i] = <<"data", "transparency">>
           /\ lda_terms[lda_topics[i]] = <<"tax", "data">>
           /\ response_themes[i].themes =
                  <<"Awareness/Transparency", "Infrastructure/Green Energy",
                    "Bias/Social Impact">>

\* the themes of the table one of whose keywords is a top term of the dominant
\* topic of response i
TopicMatchingThemes(i) ==
    {theme_mapping[k].name :
        k \in {j \in DOMAIN theme_mapping :
                  theme_mapping[j].keywords \cap Range(lda_terms[lda_topics[i]]) # {}}}

\* C11: the topic fallback decides only for responses without a keyword match;
\* such a response gets one theme whose keywords meet the top terms of its
\* dominant topic, and "General" exactly when there is none. Every response has
\* a non-empty theme list in which "General" stands alone.
C11_TopicFallback ==
    pc = "themes_merged" =>
        \A i \in DOMAIN cleaned_texts :
            LET themes == response_themes[i].themes IN
            /\ themes # << >>
            /\ MatchingThemes(i) # {} => themes = KeywordThemes(cleaned_texts[i])
            /\ (MatchingThemes(i) = {} /\ TopicMatchingThemes(i) # {}) =>
                   /\ Len(themes) = 1
                   /\ themes[1] \in TopicMatchingThemes(i)
            /\ "General" \in Range(themes) <=>
                   (MatchingThemes(i) = {} /\ TopicMatchingThemes(i) = {})
            /\ "General" \in Range(themes) => themes = <<"General">>

C11_Witness ==
    /\ pc = "themes_merged"
    /\ \E i, j \in DOMAIN cleaned_texts :
           /\ cleaned_texts[i] = <<"people">>
           /\ lda_terms[lda_topics[i]] = <<"tax", "data">>
           /\ response_themes[i].themes = <<"Policy/Tax/Offsets">>
           /\ cleaned_texts[j] = <<"people">>
           /\ response_themes[j].themes = <<"General">>

\* the sum of the Percentage column of the frequency table
PercentageSum == Sum([k \in DOMAIN frequency_data |-> frequency_data[k].Percentage])

\* C12: the reported percentages of the theme table of a non-empty corpus sum
\* to at least 100, and to exactly 100 when every response has one theme.
C12_PercentagesSum ==
    (pc = "frequency_tabled" /\ Len(response_themes) > 0) =>
        /\ LessEq(Num(100), PercentageSum)
        /\ (\A i \in DOMAIN response_themes : Len(response_themes[i].themes) = 1)
               => PercentageSum = Num(100)

----------------------------------------------------------------------------
(* Properties of preprocess_text *)

IsPunctuation(c) ==
    c \notin Range(UpperCase) \cup Range(LowerCase) \cup Digits \cup {" "}

\* C14: every token of a cleaned text is lowercase, free of punctuation, no
\* stopword and longer than two characters.
C14_CleanTokens ==
    (analyzer = "cleaning" /\ pc = "cleaned") =>
        \A i \in DOMAIN cleaned_texts :
            LET tokens == word_tokenize(cleaned_texts[i]) IN
            \A k \in DOMAIN tokens :
                /\ \A j \in DOMAIN tokens[k] :
                       /\ tokens[k][j] \notin Range(UpperCase)
                       /\ ~IsPunctuation(tokens[k][j])
                /\ tokens[k] \notin stop_words
                /\ Len(tokens[k]) > 2

----------------------------------------------------------------------------
(* Properties of the group tables *)

\* the number of sent records of the input whose key, computed by f, is key
SentWithKey(f(_), key) ==
    Cardinality({i \in DOMAIN SentPrompts : f(SentPrompts[i]) = key})

UserOf(r) == r.userId
ConversationOf(r) == r.conversationId
DateOf(r) == Num(r.createdAt \div 24)
HourOf(r) == Num(r.createdAt % 24)
DayOf(r) == day_name[((r.createdAt \div 24) % 7) + 1]
ModeNameOf(r) == MapMode(r.chatMode)

\* table has a row for exactly the keys that f gives to a sent record, and the
\* count in each row is the number of those records
RowsOfSentKeys(table, f(_), count) ==
    /\ DOMAIN table = {f(SentPrompts[i]) : i \in DOMAIN SentPrompts}
    /\ \A key \in DOMAIN table :
           /\ table[key][count] = SentWithKey(f, key)
           /\ table[key][count] >= 1

----------------------------------------------------------------------------
(* Properties of the failure semantics *)

\* the columns preprocess_data of the energy analyzer asks for
PreprocessColumns == {"numberOfInputTokens", "numberOfOutputTokens", "usageInWh",
                      "isSent", "chatMode"}

\* C16: a step completes only when the table has the columns it asks for, so
\* preprocess_data does not complete on a table that lacks one of them.
C16_MissingColumnError ==
    (analyzer = "energy" /\ pc \notin {"loaded", "KeyError"}) =>
        PreprocessColumns \subseteq columns

\* C17: when Prompts.json is absent the prompt list is empty and no step of
\* run_analysis raises.
C17_MissingFileCompletes ==
    ~prompts_found => (prompts = << >> /\ pc # "KeyError")

\* the numeric values that the sent records of mode group g have in column c,
\* in file order
NumericValues(g, c) ==
    Col(SelectSeq(SentPrompts,
                  LAMBDA r : MapMode(r.chatMode) = g /\ r[c].k = "num"), c)

RECURSIVE Total(_)
\* the sum of a sequence of numbers
Total(vals) == IF vals = << >> THEN Num(0) ELSE Add(Head(vals), Total(Tail(vals)))

\* the mean of a sequence of numbers, undefined for none
Average(vals) == IF vals = << >> THEN NaN ELSE Div(Total(vals), Num(Len(vals)))

\* C18: a record with a non-numeric token count or energy value is kept with
\* NaN in that field, and each group's mean and sum of the column are those of
\* the group's numeric values.
C18_MalformedIgnored ==
    (analyzer = "energy" /\ pc \in {"energy_analyzed", "efficiency_analyzed"}) =>
        /\ Len(prompts_df) = Len(SentPrompts)
        /\ \A i \in DOMAIN prompts_df :
               /\ IsNaN(prompts_df[i].numberOfInputTokens)
                      <=> SentPrompts[i].numberOfInputTokens = NotNumeric
               /\ IsNaN(prompts_df[i].usageInWh)
                      <=> SentPrompts[i].usageInWh = NotNumeric
        /\ \A g \in DOMAIN mode_analysis :
               /\ mode_analysis[g].numberOfInputTokens_mean =
                      Round4(Average(NumericValues(g, "numberOfInputTokens")))
               /\ mode_analysis[g].usageInWh_mean =
                      Round4(Average(NumericValues(g, "usageInWh")))
               /\ mode_analysis[g].usageInWh_sum =
                      Round4(Total(NumericValues(g, "usageInWh")))

C18_Witness ==
    /\ pc = "energy_analyzed"
    /\ Len(prompts_df) = 3
    /\ \E g \in DOMAIN mode_analysis :
           /\ Len(Group(prompts_df, "mode_name", g)) = 3
           /\ \E i \in DOMAIN prompts_df : IsNaN(prompts_df[i].usageInWh)
           /\ mode_analysis[g].usageInWh_mean = CentiWh(2)
           /\ mode_analysis[g].usageInWh_sum = CentiWh(4)
           /\ mode_analysis[g].numberOfInputTokens_count = 2


(***************************************************************************)
(* Chart styling (styling_utils.ChartStyler) and the scripts that build a  *)
(* styler.  A script's run is followed through the places where it touches *)
(* the file system; the data files are present and well formed here.       *)
(* chart_styles.yaml is absent, or parses to a mapping that has every      *)
(* section the styler reads, or does not parse.                            *)
(***************************************************************************)
FallbackConfig ==
    [font |-> [family |-> "Times New Roman",
               sizes |-> [title |-> 56, xlabel |-> 52, ylabel |-> 52,
                          legend |-> 36, tick_labels |-> 35]],
     colors |-> [modes |-> <<"#2E8B57", "#FFD700", "#DC143C">>,
                 fallback |-> "#1f77b4"],
     output |-> [dpi |-> 300, facecolor |-> "white", bbox_inches |-> "tight"]]

\* a chart_styles.yaml that carries every key the operations read
FileConfig ==
    [font |-> [family |-> "Times New Roman",
               sizes |-> [title |-> 56, xlabel |-> 52, ylabel |-> 52,
                          legend |-> 36, tick_labels |-> 35, bar_labels |-> 34]],
     colors |-> [modes |-> <<"#2E8B57", "#FFD700", "#DC143C">>,
                 fallback |-> "#1f77b4"],
     dimensions |-> [base_width |-> 32, base_height |-> 24,
                     single_chart_height |-> 8, dual_chart_height |-> 12,
                     quad_chart_height |-> 16],
     layout |-> [subplot_adjust |->
                     [left |-> "0.1", right |-> "0.9", bottom |-> "0.1",
                      top |-> "0.9", bottom_with_legend |-> "0.2",
                      top_with_legend |-> "0.85"],
                 legend |->
                     [position |-> "upper center", bbox_anchor |-> "0.5, -0.15",
                      ncol |-> "3", frameon |-> "True", fancybox |-> "True",
                      shadow |-> "True"]],
     output |-> [dpi |-> 300, facecolor |-> "white", bbox_inches |-> "tight"]]

ConfigFileStates == {"absent", "valid", "malformed"}

\* what an operation hands back: a value, or the exception it raised
Returned(v) == [raised |-> "none", value |-> v]
Raised(e) == [raised |-> e, value |-> << >>]

\* whether cfg[a][b] can be read
HasKey(cfg, a, b) == a \in DOMAIN cfg /\ b \in DOMAIN cfg[a]

\* whether cfg[a][b][k] can be read for every k of keys
HasKeys(cfg, a, b, keys) == HasKey(cfg, a, b) /\ keys \subseteq DOMAIN cfg[a][b]

\* ChartStyler._load_config: the parsed file if it exists, else the fallback
_load_config(file) ==
    CASE file = "valid" -> Returned(FileConfig)
      [] file = "malformed" -> Raised("YAMLError")
      [] OTHER -> Returned(FallbackConfig)

DefaultFontSize == 35

get_font_size(cfg, element) ==
    IF ~HasKey(cfg, "font", "sizes") THEN Raised("KeyError")
    ELSE IF element \in DOMAIN cfg.font.sizes
         THEN Returned(<<cfg.font.sizes[element]>>)
         ELSE Returned(<<DefaultFontSize>>)

get_colors(cfg, color_scheme) ==
    IF ~HasKey(cfg, "colors", "fallback") THEN Raised("KeyError")
    ELSE IF color_scheme \in DOMAIN cfg.colors
         THEN Returned(cfg.colors[color_scheme])
         ELSE Returned(<<cfg.colors.fallback>>)

HeightKey(chart_type) ==
    CASE chart_type = "single" -> "single_chart_height"
      [] chart_type = "dual" -> "dual_chart_height"
      [] chart_type = "quad" -> "quad_chart_height"
      [] OTHER -> "base_height"

get_figure_size(cfg, chart_type) ==
    IF HasKey(cfg, "dimensions", "base_width")
       /\ HasKey(cfg, "dimensions", HeightKey(chart_type))
    THEN Returned(<<cfg.dimensions.base_width,
                    cfg.dimensions[HeightKey(chart_type)]>>)
    ELSE Raised("KeyError")

SubplotKeys(chart_type) ==
    IF chart_type = "with_legend"
    THEN {"left", "right", "bottom_with_legend", "top_with_legend"}
    ELSE {"left", "right", "bottom", "top"}

configure_subplot(cfg, chart_type) ==
    IF HasKeys(cfg, "layout", "subplot_adjust", SubplotKeys(chart_type))
    THEN Returned(<< >>)
    ELSE Raised("KeyError")

LegendKeys(chart_type) ==
    IF chart_type = "top"
    THEN {"position", "bbox_anchor", "ncol", "frameon", "fancybox", "shadow"}
    ELSE {}

style_legend(cfg, chart_type) ==
    IF HasKeys(cfg, "layout", "legend", LegendKeys(chart_type))
    THEN [get_font_size(cfg, "legend") EXCEPT !.value = << >>]
    ELSE Raised("KeyError")

setup_fonts(cfg) ==
    IF HasKey(cfg, "font", "family") /\ HasKeys(cfg, "font", "sizes", {"tick_labels"})
    THEN Returned(<< >>)
    ELSE Raised("KeyError")

style_axes(cfg) == [get_font_size(cfg, "title") EXCEPT !.value = << >>]

\* an output path is <<directory, file name>>
Parent(output_path) == output_path[1]

\* the working directory is there; another directory may have been made or not
ParentExists(output_path, made) == Parent(output_path) = "." \/ made

\* savefig opens the file for writing: its directory has to exist
SaveChart(cfg, output_path, parent_exists) ==
    IF "output" \in DOMAIN cfg
       /\ {"dpi", "facecolor", "bbox_inches"} \subseteq DOMAIN cfg.output
    THEN IF parent_exists THEN Returned(<< >>)
         ELSE Raised("FileNotFoundError")
    ELSE Raised("KeyError")

\* the first exception of a sequence of calls, or the last call's result
RECURSIVE FirstRaised(_)
FirstRaised(results) ==
    IF Len(results) = 1 \/ Head(results).raised # "none" THEN Head(results)
    ELSE FirstRaised(Tail(results))

CreateBarChart(cfg, color_scheme, chart_type, output_path, parent_exists) ==
    FirstRaised(<<setup_fonts(cfg),
                  get_figure_size(cfg, chart_type),
                  get_colors(cfg, color_scheme),
                  get_font_size(cfg, "bar_labels"),
                  style_axes(cfg),
                  configure_subplot(cfg, chart_type),
                  SaveChart(cfg, output_path, parent_exists)>>)

Elements == {"title", "xlabel", "ylabel", "legend", "tick_labels",
             "bar_labels", "annotation"}
ColorSchemes == {"modes", "users"}
ChartTypes == {"base", "single", "dual", "quad", "with_legend", "top"}
ChartPaths == {<<".", "chart.png">>, <<"plots", "chart.png">>}

\* a file opened for appending would keep what it held
WriteAppending(content, n) == content \o <<n>>

\* what a file holds after it was opened for writing and the output of
\* execution n was written to it: the earlier content is gone
Write(content, n) == <<n>>

\* the output files after the files at paths were written
WriteFiles(fs, paths, by, n) ==
    [p \in DOMAIN fs \cup paths |->
        IF p \in paths
        THEN [by |-> by,
              holds |-> Write(IF p \in DOMAIN fs THEN fs[p].holds ELSE << >>, n)]
        ELSE fs[p]]

\* a program that builds a ChartStyler and calls its operations
StylerClient == "chart_client"

CallEnds(op, arg, result) ==
    last_call' = [op |-> op, arg |-> arg, raised |-> result.raised,
                  value |-> result.value]

\* ChartStyler.__init__ in a client
client_ChartStyler ==
    /\ script = StylerClient
    /\ pc = "init"
    /\ LET loaded == _load_config(config_file)
       IN IF loaded.raised = "none"
          THEN /\ config' = loaded.value
               /\ pc' = "styled"
          ELSE /\ config' = config
               /\ pc' = loaded.raised
    /\ UNCHANGED <<analyzer, script, config_file, written, files, execution,
                   last_call,
                   prompt_vars, text_vars>>

call_get_font_size ==
    /\ script = StylerClient
    /\ pc = "styled"
    /\ \E element \in Elements :
           CallEnds("get_font_size", element, get_font_size(config, element))
    /\ UNCHANGED <<analyzer, pc, script, config_file, config, written, files,
                   execution,
                   prompt_vars, text_vars>>

call_get_colors ==
    /\ script = StylerClient
    /\ pc = "styled"
    /\ \E color_scheme \in ColorSchemes :
           CallEnds("get_colors", color_scheme, get_colors(config, color_scheme))
    /\ UNCHANGED <<analyzer, pc, script, config_file, config, written, files,
                   execution,
                   prompt_vars, text_vars>>

call_get_figure_size ==
    /\ script = StylerClient
    /\ pc = "styled"
    /\ \E chart_type \in ChartTypes :
           CallEnds("get_figure_size", chart_type,
                    get_figure_size(config, chart_type))
    /\ UNCHANGED <<analyzer, pc, script, config_file, config, written, files,
                   execution,
                   prompt_vars, text_vars>>

call_configure_subplot ==
    /\ script = StylerClient
    /\ pc = "styled"
    /\ \E chart_type \in ChartTypes :
           CallEnds("configure_subplot", chart_type,
                    configure_subplot(config, chart_type))
    /\ UNCHANGED <<analyzer, pc, script, config_file, config, written, files,
                   execution,
                   prompt_vars, text_vars>>

call_style_legend ==
    /\ script = StylerClient
    /\ pc = "styled"
    /\ \E chart_type \in ChartTypes :
           CallEnds("style_legend", chart_type, style_legend(config, chart_type))
    /\ UNCHANGED <<analyzer, pc, script, config_file, config, written, files,
                   execution,
                   prompt_vars, text_vars>>

\* the directory of the path is there already, or it is not
save_chart ==
    /\ script = StylerClient
    /\ pc = "styled"
    /\ \E output_path \in ChartPaths, parent_exists \in BOOLEAN :
           LET result == SaveChart(config, output_path,
                                   ParentExists(output_path, parent_exists))
           IN /\ CallEnds("save_chart", output_path[1], result)
              /\ written' = IF result.raised = "none"
                            THEN written \cup {output_path}
                            ELSE written
              /\ files' = IF result.raised = "none"
                          THEN WriteFiles(files, {output_path}, script, execution)
                          ELSE files
    /\ UNCHANGED <<analyzer, pc, script, config_file, config, execution,
                   prompt_vars, text_vars>>

create_bar_chart ==
    /\ script = StylerClient
    /\ pc = "styled"
    /\ \E color_scheme \in ColorSchemes, chart_type \in ChartTypes,
          output_path \in ChartPaths, parent_exists \in BOOLEAN :
           LET result == CreateBarChart(config, color_scheme, chart_type,
                                        output_path,
                                        ParentExists(output_path, parent_exists))
           IN /\ CallEnds("create_bar_chart", chart_type, result)
              /\ written' = IF result.raised = "none"
                            THEN written \cup {output_path}
                            ELSE written
              /\ files' = IF result.raised = "none"
                          THEN WriteFiles(files, {output_path}, script, execution)
                          ELSE files
    /\ UNCHANGED <<analyzer, pc, script, config_file, config, execution,
                   prompt_vars, text_vars>>

(***************************************************************************)
(* The analysis scripts and run_all_analyses.                              *)
(***************************************************************************)
OutputDirs == {<<"..", "output">>, <<"../output", "plots">>,
               <<"../output", "data">>, <<"../output", "reports">>}

AnalysisScripts == {"analyze_energy_consumption", "analyze_user_behavior",
                    "analyze_performance_tradeoffs"}

Driver == "run_all_analyses"

\* the analyzer class a script runs first
FirstAnalyzer(s) ==
    CASE s = "analyze_user_behavior" -> "behavior"
      [] s = "analyze_performance_tradeoffs" -> "tradeoff"
      [] OTHER -> "energy"

\* the analyzers whose __init__ builds a ChartStyler
BuildsStyler == {"behavior", "tradeoff"}

\* a driver that would leave the user behaviour analysis out
NextAnalyzerSkipping(a) ==
    CASE a = "energy" -> "tradeoff"
      [] OTHER -> "none"

\* main of run_all_analyses: energy, then behavior, then trade-offs
NextAnalyzer(a) ==
    CASE a = "energy" -> "behavior"
      [] a = "behavior" -> "tradeoff"
      [] OTHER -> "none"

\* the file names each analyzer writes into data, plots and reports
FileNames(a, kind) ==
    CASE a = "energy" /\ kind = "data" ->
            {"mode_energy_analysis.csv", "token_efficiency_analysis.csv"}
      [] a = "energy" /\ kind = "plots" ->
            {"energy_consumption_by_mode.png", "token_efficiency_comparison.png",
             "input_output_token_scatter.png", "energy_distribution_by_mode.png"}
      [] a = "energy" /\ kind = "reports" -> {"energy_analysis_report.md"}
      [] a = "behavior" /\ kind = "data" ->
            {"user_mode_switching_analysis.csv", "daily_usage_patterns.csv",
             "hourly_usage_patterns.csv", "day_of_week_patterns.csv",
             "conversation_patterns_analysis.csv"}
      [] a = "behavior" /\ kind = "plots" ->
            {"mode_switching_patterns.png", "temporal_usage_patterns.png",
             "conversation_analysis.png"}
      [] a = "behavior" /\ kind = "reports" -> {"user_behavior_report.md"}
      [] a = "tradeoff" /\ kind = "data" ->
            {"efficiency_metrics_analysis.csv", "response_quality_analysis.csv",
             "token_efficiency_analysis.csv", "context_utilization_analysis.csv",
             "performance_correlations.csv", "trade_off_analysis.csv"}
      [] a = "tradeoff" /\ kind = "plots" ->
            {"efficiency_comparison.png", "trade_off_scatter.png",
             "performance_radar_chart.png"}
      [] a = "tradeoff" /\ kind = "reports" -> {"trade_off_analysis_report.md"}
      [] OTHER -> {}

Output(a, kind) == {<<"../output/" \o kind, name>> : name \in FileNames(a, kind)}

OutputKinds == {"data", "plots", "reports"}

\* every file one run_analysis of the analyzer writes
OutputsOf(a) == UNION {Output(a, kind) : kind \in OutputKinds}

\* __init__ of an analyzer, first part: the output directory and its three
\* subdirectories
make_output_dirs ==
    /\ script \in AnalysisScripts \cup {Driver}
    /\ pc = "init"
    /\ written' = written \cup OutputDirs
    /\ UNCHANGED <<files, execution>>
    /\ pc' = IF analyzer \in BuildsStyler THEN "dirs_made" ELSE "styled"
    /\ UNCHANGED <<analyzer, script, config_file, config, last_call,
                   prompt_vars, text_vars>>

\* __init__ of an analyzer, second part: self.styler = ChartStyler()
analyzer_ChartStyler ==
    /\ script \in AnalysisScripts \cup {Driver}
    /\ pc = "dirs_made"
    /\ LET loaded == _load_config(config_file)
       IN IF loaded.raised = "none"
          THEN /\ config' = loaded.value
               /\ pc' = "styled"
          ELSE /\ config' = config
               /\ pc' = loaded.raised
    /\ UNCHANGED <<analyzer, script, config_file, written, files, execution,
                   last_call,
                   prompt_vars, text_vars>>

\* __init__ of an analyzer, last part
load_data ==
    /\ script \in AnalysisScripts \cup {Driver}
    /\ pc = "styled"
    /\ pc' = "data_loaded"
    /\ UNCHANGED <<analyzer, script, config_file, config, written, files,
                   execution, last_call,
                   prompt_vars, text_vars>>

\* run_analysis: preprocess_data and the analyze_ methods, which save their
\* tables; without Prompts.json they raise before the first table is saved
write_tables ==
    /\ script \in AnalysisScripts \cup {Driver}
    /\ pc = "data_loaded"
    /\ IF prompts_found
       THEN /\ written' = written \cup Output(analyzer, "data")
            /\ files' = WriteFiles(files, Output(analyzer, "data"), analyzer,
                                   execution)
            /\ pc' = "tables_written"
       ELSE /\ UNCHANGED <<written, files>>
            /\ pc' = "KeyError"
    /\ UNCHANGED execution
    /\ UNCHANGED <<analyzer, script, config_file, config, last_call,
                   prompt_vars, text_vars>>

\* run_analysis: the create_ methods
write_charts ==
    /\ script \in AnalysisScripts \cup {Driver}
    /\ pc = "tables_written"
    /\ written' = written \cup Output(analyzer, "plots")
    /\ files' = WriteFiles(files, Output(analyzer, "plots"), analyzer, execution)
    /\ UNCHANGED execution
    /\ pc' = "charts_written"
    /\ UNCHANGED <<analyzer, script, config_file, config, last_call,
                   prompt_vars, text_vars>>

\* run_analysis: the generate_ method
write_report ==
    /\ script \in AnalysisScripts \cup {Driver}
    /\ pc = "charts_written"
    /\ written' = written \cup Output(analyzer, "reports")
    /\ files' = WriteFiles(files, Output(analyzer, "reports"), analyzer, execution)
    /\ UNCHANGED execution
    /\ pc' = "complete"
    /\ UNCHANGED <<analyzer, script, config_file, config, last_call,
                   prompt_vars, text_vars>>

\* main of run_all_analyses goes on to its next analyzer
construct_next_analyzer ==
    /\ script = Driver
    /\ pc = "complete"
    /\ NextAnalyzer(analyzer) # "none"
    /\ analyzer' = NextAnalyzer(analyzer)
    /\ pc' = "init"
    /\ UNCHANGED <<script, config_file, config, written, files,
                   execution, last_call,
                   prompt_vars, text_vars>>

\* main of run_all_analyses prints ALL ANALYSES COMPLETE!
print_all_complete ==
    /\ script = Driver
    /\ pc = "complete"
    /\ NextAnalyzer(analyzer) = "none"
    /\ pc' = "all_complete"
    /\ UNCHANGED <<analyzer, script, config_file, config, written, files,
                   execution, last_call, prompt_vars, text_vars>>

MaxExecutions == 2

\* the script has come to its end without an error
ScriptEnded ==
    IF script = Driver THEN pc = "all_complete"
    ELSE script \in AnalysisScripts /\ pc = "complete"

\* the script is started again on the same input
run_script_again ==
    /\ ScriptEnded
    /\ execution < MaxExecutions
    /\ execution' = execution + 1
    /\ analyzer' = FirstAnalyzer(script)
    /\ config' = NoConfig
    /\ pc' = "init"
    /\ UNCHANGED <<script, config_file, written, files, last_call,
                   prompt_vars, text_vars>>

NoPrompts ==
    /\ prompts = << >>
    /\ prompts_df = << >>
    /\ columns = {}
    /\ mode_analysis = NoTable
    /\ efficiency_analysis = NoTable
    /\ token_efficiency = NoTable
    /\ user_mode_analysis = NoTable
    /\ NoReport
    /\ NoPatterns

InitStyling ==
    /\ NoSurvey
    /\ script \in AnalysisScripts \cup {Driver, StylerClient}
    /\ analyzer = IF script = StylerClient THEN "none" ELSE FirstAnalyzer(script)
    /\ config_file \in ConfigFileStates
    /\ config = NoConfig
    /\ written = {}
    /\ files = NoFiles
    /\ execution = 1
    /\ last_call = NoCall
    /\ pc = "init"
    /\ prompts_found \in BOOLEAN
    /\ NoPrompts
    /\ NoTexts

NextStyling ==
    \/ client_ChartStyler
    \/ call_get_font_size
    \/ call_get_colors
    \/ call_get_figure_size
    \/ call_configure_subplot
    \/ call_style_legend
    \/ save_chart
    \/ create_bar_chart
    \/ make_output_dirs
    \/ analyzer_ChartStyler
    \/ load_data
    \/ write_tables
    \/ write_charts
    \/ write_report
    \/ construct_next_analyzer
    \/ print_all_complete
    \/ run_script_again

SpecStyling == InitStyling /\ [][NextStyling]_vars

(***************************************************************************)
(* The survey analyzer: Likert questions (analyze.py, visualize.py).       *)
(* A column name is represented by the set of keyword terms its lower-case *)
(* form contains; a label "3 - Maybe" by its scale point and its text, the *)
(* bare label "3" by the scale point and the empty text.  A dictionary key *)
(* is <<"int", i>> for the integer i and <<"str", i>> for the string "i".  *)
(***************************************************************************)
MaxAnswers == 3

KeywordTerms == {"concerned", "important", "would you like", "would you prefer",
                 "influence", "agree"}

ScalePoints == <<1, 2, 3, 4, 5>>

IntKey(i) == <<"int", i>>
StrKey(i) == <<"str", i>>

\* the if/elif chain over column.lower()
LabelScheme(col) ==
    IF "concerned" \in col THEN "concerned"
    ELSE IF "important" \in col THEN "important"
    ELSE IF col \cap {"would you like", "would you prefer", "influence"} # {}
         THEN "would"
    ELSE IF "agree" \in col THEN "agree"
    ELSE "plain"

LabelText(scheme, i) ==
    CASE scheme = "concerned" ->
            <<"Not at all concerned", "Slightly concerned", "Moderately concerned",
              "Very concerned", "Extremely concerned">>[i]
      [] scheme = "important" ->
            <<"Not at all important", "Slightly important", "Moderately important",
              "Very important", "Extremely important">>[i]
      [] scheme = "would" ->
            <<"Definitely not", "Probably not", "Maybe", "Probably yes",
              "Definitely yes">>[i]
      [] scheme = "agree" ->
            <<"Strongly disagree", "Disagree", "Neither agree nor disagree",
              "Agree", "Strongly agree">>[i]
      [] OTHER -> ""

\* the labels dictionary: integer keys in the four schemes, string keys in
\* the else branch
likert_labels(col) ==
    LET scheme == LabelScheme(col)
        keys == IF scheme = "plain" THEN {StrKey(i) : i \in 1..5}
                ELSE {IntKey(i) : i \in 1..5}
    IN [key \in keys |-> [point |-> key[2], text |-> LabelText(scheme, key[2])]]

\* df[column].value_counts().sort_index(): the answers given, ascending, each
\* with the number of respondents who gave it; missing answers do not count
ValueCounts(col_values) ==
    LET given == SelectSeq(ScalePoints,
                           LAMBDA v : \E i \in DOMAIN col_values : col_values[i] = Num(v))
    IN [k \in DOMAIN given |->
           [index |-> given[k],
            count |-> Cardinality({i \in DOMAIN col_values :
                                       col_values[i] = Num(given[k])})]]

\* counts.get(label, 0)
CountOfLabel(counts, label) ==
    LET hits == SelectSeq(counts, LAMBDA c : c.index = label)
    IN IF hits = << >> THEN 0 ELSE hits[1].count

clean_likert_responses(col_values, col) ==
    LET counts == ValueCounts(col_values)
        labels == likert_labels(col)
    IN IF \E k \in DOMAIN counts : IntKey(counts[k].index) \notin DOMAIN labels
       THEN Raised("KeyError")            \* counts.index = [labels[i] ...]
       ELSE IF \E i \in 1..5 : IntKey(i) \notin DOMAIN labels
       THEN Raised("KeyError")            \* labels[i] for i in range(1, 6)
       ELSE LET relabelled == [k \in DOMAIN counts |->
                                  [index |-> labels[IntKey(counts[k].index)],
                                   count |-> counts[k].count]]
                full_scale == [i \in 1..5 |->
                                  [index |-> labels[IntKey(i)],
                                   count |-> CountOfLabel(relabelled,
                                                          labels[IntKey(i)])]]
            IN Returned(SelectSeq(full_scale, LAMBDA row : row.count > 0))

call_clean_likert_responses ==
    /\ analyzer = "survey"
    /\ pc = "survey_loaded"
    /\ likert_data' = clean_likert_responses(answers, column)
    /\ pc' = IF likert_data'.raised = "none" THEN "likert_cleaned"
             ELSE likert_data'.raised
    /\ UNCHANGED <<analyzer, column, answers, bars, loader_vars, styling_vars,
                   prompt_vars, cleaned_texts, lda_topics, lda_terms,
                   response_themes, frequency_data, lda_fit, runs, first_run, texts>>

\* y_labels of the two charts name the scale points from 5 down to 1
y_labels == <<5, 4, 3, 2, 1>>

\* idx.startswith(f"{likert_val} -")
StartsWithPoint(label, likert_val) == label.point = likert_val /\ label.text # ""

\* data.sum()
SumOfCounts(data) == SumOver([k \in DOMAIN data |-> data[k].count], DOMAIN data)

\* the percentage the charts compute for one scale point of one question
LikertPercentage(data, likert_val) ==
    LET matching == SelectSeq(data, LAMBDA row : StartsWithPoint(row.index, likert_val))
    IN IF matching # << >> THEN Rat(matching[1].count * 100, SumOfCounts(data))
       ELSE Num(0)

\* barh(range(5), values) and yticks(range(5), y_labels): position k holds
\* values[k], the percentage of scale point k + 1, and the k-th label
StackedBars(data) ==
    [position \in 0..4 |->
        [width |-> LikertPercentage(data, position + 1),
         tick |-> y_labels[position + 1]]]

create_group1_stacked_bar_chart ==
    /\ analyzer = "survey"
    /\ pc = "likert_cleaned"
    /\ bars' = StackedBars(likert_data.value)
    /\ pc' = "group1_charted"
    /\ UNCHANGED <<analyzer, column, answers, likert_data, loader_vars, styling_vars,
                   prompt_vars, cleaned_texts, lda_topics, lda_terms,
                   response_themes, frequency_data, lda_fit, runs, first_run, texts>>

create_group2_stacked_bar_chart ==
    /\ analyzer = "survey"
    /\ pc = "likert_cleaned"
    /\ bars' = StackedBars(likert_data.value)
    /\ pc' = "group2_charted"
    /\ UNCHANGED <<analyzer, column, answers, likert_data, loader_vars, styling_vars,
                   prompt_vars, cleaned_texts, lda_topics, lda_terms,
                   response_themes, frequency_data, lda_fit, runs, first_run, texts>>

\* an answer is a scale point, or missing
LikertAnswers == {Num(v) : v \in 1..5} \cup {NaN}

NoLoader ==
    /\ cache = << >>
    /\ config_files = << >>
    /\ last_load = NoLoad
    /\ succeeded = {}

InitLikert ==
    /\ analyzer = "survey"
    /\ pc = "survey_loaded"
    /\ column \in SUBSET KeywordTerms
    /\ IsSeqUpTo(answers, LikertAnswers, MaxAnswers)
    /\ likert_data = << >>
    /\ bars = << >>
    /\ NoLoader
    /\ prompts_found = FALSE
    /\ NoPrompts
    /\ NoTexts
    /\ NoStyling

NextLikert ==
    \/ call_clean_likert_responses
    \/ create_group1_stacked_bar_chart
    \/ create_group2_stacked_bar_chart

SpecLikert == InitLikert /\ [][NextLikert]_vars


(***************************************************************************)
(* ConfigLoader (utils/config_loader.py).  A configuration file is missing,*)
(* or does not parse, or parses to a configuration; a configuration is     *)
(* represented by the version of the file it was read from and by whether  *)
(* it has the structure validate_config asks for.  The files can change    *)
(* between two calls.                                                      *)
(***************************************************************************)
MaxVersions == 2

ConfigNames == {"questions", "chart_styles"}

Configurations == [version : 1..MaxVersions, complete : BOOLEAN]

NoContent == [version |-> 0, complete |-> FALSE]

FileStates ==
    {[status |-> st, content |-> NoContent] : st \in {"missing", "malformed"}}
        \cup {[status |-> "valid", content |-> c] : c \in Configurations}

\* a loader that would read the file on every call
LoadConfigUncached(c, fs, config_name) ==
    IF fs[config_name].status = "missing"
    THEN [raised |-> "FileNotFoundError", value |-> << >>, read_file |-> FALSE,
          cache |-> c]
    ELSE IF fs[config_name].status = "malformed"
    THEN [raised |-> "ValueError", value |-> << >>, read_file |-> TRUE, cache |-> c]
    ELSE [raised |-> "none", value |-> fs[config_name].content, read_file |-> TRUE,
          cache |-> c]

\* load_config: the result, whether the file was opened, and the cache after
LoadConfig(c, fs, config_name) ==
    IF config_name \in DOMAIN c
    THEN [raised |-> "none", value |-> c[config_name], read_file |-> FALSE, cache |-> c]
    ELSE IF fs[config_name].status = "missing"
    THEN [raised |-> "FileNotFoundError", value |-> << >>, read_file |-> FALSE,
          cache |-> c]
    ELSE IF fs[config_name].status = "malformed"
    THEN [raised |-> "ValueError", value |-> << >>, read_file |-> TRUE, cache |-> c]
    ELSE [raised |-> "none", value |-> fs[config_name].content, read_file |-> TRUE,
          cache |-> [n \in DOMAIN c \cup {config_name} |->
                        IF n = config_name THEN fs[config_name].content ELSE c[n]]]

load_config ==
    /\ analyzer = "config_loader"
    /\ \E config_name \in ConfigNames :
           LET result == LoadConfig(cache, config_files, config_name) IN
           /\ cache' = result.cache
           /\ last_load' = [op |-> "load_config", name |-> config_name,
                            raised |-> result.raised, read_file |-> result.read_file,
                            value |-> result.value]
           /\ succeeded' = IF result.raised = "none"
                           THEN succeeded \cup {config_name} ELSE succeeded
    /\ UNCHANGED <<analyzer, pc, config_files, likert_vars, styling_vars, prompt_vars,
                   cleaned_texts, lda_topics, lda_terms, response_themes,
                   frequency_data, lda_fit, runs, first_run, texts>>

\* validate_config: load_config inside try, any exception turned into
\* (False, message)
validate_config ==
    /\ analyzer = "config_loader"
    /\ \E config_name \in ConfigNames :
           LET result == LoadConfig(cache, config_files, config_name) IN
           /\ cache' = result.cache
           /\ last_load' = [op |-> "validate_config", name |-> config_name,
                            raised |-> "none", read_file |-> result.read_file,
                            value |-> IF result.raised = "none"
                                      THEN <<result.value.complete>>
                                      ELSE <<FALSE>>]
           /\ succeeded' = IF result.raised = "none"
                           THEN succeeded \cup {config_name} ELSE succeeded
    /\ UNCHANGED <<analyzer, pc, config_files, likert_vars, styling_vars, prompt_vars,
                   cleaned_texts, lda_topics, lda_terms, response_themes,
                   frequency_data, lda_fit, runs, first_run, texts>>

\* somebody edits, breaks, removes or creates a configuration file
change_file ==
    /\ analyzer = "config_loader"
    /\ \E config_name \in ConfigNames, state \in FileStates :
           /\ state # config_files[config_name]
           /\ config_files' = [config_files EXCEPT ![config_name] = state]
    /\ UNCHANGED <<analyzer, pc, cache, last_load, succeeded, likert_vars,
                   styling_vars, prompt_vars, cleaned_texts, lda_topics, lda_terms,
                   response_themes, frequency_data, lda_fit, runs, first_run, texts>>

InitLoader ==
    /\ analyzer = "config_loader"
    /\ pc = "constructed"
    /\ cache = << >>
    /\ config_files \in [ConfigNames -> FileStates]
    /\ last_load = NoLoad
    /\ succeeded = {}
    /\ column = {}
    /\ answers = << >>
    /\ likert_data = << >>
    /\ bars = << >>
    /\ prompts_found = FALSE
    /\ NoPrompts
    /\ NoTexts
    /\ NoStyling

NextLoader ==
    \/ load_config
    \/ validate_config
    \/ change_file

SpecLoader == InitLoader /\ [][NextLoader]_vars


\* C19: when a script or the run-all driver has ended with the parse error of
\* chart_styles.yaml, the run has created nothing: no output directory, no
\* table, no chart and no report.
C19_AbortBeforeOutput ==
    pc = "YAMLError" => written = {}

\* C20: when chart_styles.yaml is absent, no ChartStyler operation ends with
\* a missing-key error.
C20_FallbackComplete ==
    (config_file = "absent" /\ last_call.op # "none") =>
        last_call.raised # "KeyError"

\* C21: a save_chart call ends with its artifact written at the output path,
\* whether or not the directory of the path existed before the call.
C21_SaveCreatesParents ==
    last_call.op = "save_chart" =>
        \E output_path \in ChartPaths :
            Parent(output_path) = last_call.arg /\ output_path \in written

\* C22: no step of a run rewrites a file that another analysis wrote: the
\* analyses of a run-all execution write pairwise disjoint sets of paths.
C22_DisjointOutputs ==
    [][\A p \in DOMAIN files : p \in DOMAIN files' /\ files'[p].by = files[p].by]_vars

\* the files one execution of the script writes
ScriptOutputs(s) ==
    IF s = Driver THEN UNION {OutputsOf(a) : a \in {"energy", "behavior", "tradeoff"}}
    ELSE OutputsOf(FirstAnalyzer(s))

\* C23: whenever a script has run to its end, for the first time or again, the
\* output files are those of a single run and each holds the output of the
\* latest execution only.
C23_RerunIdempotent ==
    ScriptEnded =>
        /\ DOMAIN files = ScriptOutputs(script)
        /\ \A p \in DOMAIN files : files[p].holds = <<execution>>

C23_Witness ==
    /\ ScriptEnded
    /\ execution = 2
    /\ script = "analyze_user_behavior"
    /\ files[<<"../output/data", "daily_usage_patterns.csv">>].holds = <<2>>

\* the code of a mode name in the enumeration 0 Energy Efficient, 1 Balanced,
\* 2 Performance
ModeCode(name) == CHOOSE c \in DOMAIN mode_mapping : mode_mapping[c] = name

\* C24: the Mode Comparison rows of the energy report are in the enumerated
\* mode order Energy Efficient, Balanced, Performance.
C24_ModeOrder ==
    pc = "report_generated" =>
        \A i, j \in DOMAIN mode_stats :
            i < j => ModeCode(mode_stats[i].mode_name) < ModeCode(mode_stats[j].mode_name)

\* the exceptions a run ends with
Errors == {"YAMLError", "KeyError"}

\* the analyzer has finished all steps of its run_analysis in this execution:
\* its report, the last thing it writes, is there
FinishedNow(a) ==
    \A p \in Output(a, "reports") :
        p \in DOMAIN files /\ files[p].by = a /\ files[p].holds = <<execution>>

\* C25: under the run-all driver the user behaviour analysis is running only
\* after the energy analysis has finished, the trade-off analysis only after
\* the user behaviour analysis has finished, ALL ANALYSES COMPLETE! is printed
\* only after all three have finished, and a run that has ended with an error
\* takes no further step.
C25_DriverOrder ==
    /\ [](script = Driver =>
            /\ analyzer \in {"behavior", "tradeoff"} => FinishedNow("energy")
            /\ analyzer = "tradeoff" => FinishedNow("behavior")
            /\ pc = "all_complete" => FinishedNow("tradeoff"))
    /\ [][pc \notin Errors]_vars

C25_Witness ==
    /\ script = Driver
    /\ pc = "all_complete"
    /\ FinishedNow("energy") /\ FinishedNow("behavior") /\ FinishedNow("tradeoff")

\* the respondents who chose scale point v
Chose(v) == {i \in DOMAIN answers : answers[i] = Num(v)}

\* C26: in both stacked bar charts the bar at each y position shows the
\* percentage of the Likert value that the tick label at that position names.
C26_BarsMatchLabels ==
    pc \in {"group1_charted", "group2_charted"} =>
        \A position \in DOMAIN bars :
            bars[position].width =
                LikertPercentage(likert_data.value, bars[position].tick)

\* C27: for every column name and every set of answers clean_likert_responses
\* returns, in scale order 1 to 5 and under the labels of the question type,
\* one count per scale point that some respondent chose, and the counts sum
\* to the number of answers that are not missing.
C27_LikertCounts ==
    pc # "survey_loaded" /\ analyzer = "survey" =>
        /\ likert_data.raised = "none"
        /\ LET rows == likert_data.value IN
           /\ \A k \in DOMAIN rows :
                 /\ rows[k].index.text = LabelText(LabelScheme(column), rows[k].index.point)
                 /\ rows[k].count = Cardinality(Chose(rows[k].index.point))
                 /\ \A j \in DOMAIN rows : j < k => rows[j].index.point < rows[k].index.point
           /\ {rows[k].index.point : k \in DOMAIN rows} = {v \in 1..5 : Chose(v) # {}}
           /\ SumOfCounts(rows) = Cardinality({i \in DOMAIN answers : ~IsNaN(answers[i])})

\* C28: the cache holds exactly the names some load_config has succeeded for;
\* a successful load_config returns what the cache holds for the name; an
\* entry of the cache never changes or disappears, whatever happens to the
\* file; a call opens the file only for a name that is not cached; and a call
\* that raised left the cache as it was.
C28_CacheOfSuccesses ==
    /\ [](DOMAIN cache = succeeded)
    /\ []((last_load.op = "load_config" /\ last_load.raised = "none") =>
              last_load.value = cache[last_load.name])
    /\ [][/\ \A n \in DOMAIN cache : n \in DOMAIN cache' /\ cache'[n] = cache[n]
          /\ (last_load' # last_load /\ last_load'.read_file) =>
                 last_load'.name \notin DOMAIN cache
          /\ (last_load' # last_load /\ last_load'.raised # "none") =>
                 cache' = cache]_vars

C28_Witness ==
    /\ last_load.op = "load_config"
    /\ last_load.raised = "none"
    /\ ~last_load.read_file
    /\ config_files[last_load.name].status = "missing"
    /\ last_load.name \in DOMAIN cache

DerivedColumns == {"mode_name", "total_tokens", "energy_per_token", "tokens_per_wh",
                   "input_output_ratio", "output_input_ratio"}

\* the derived columns that the step run_analysis calls at a position reads
\* without making them itself
DerivedColumnsRead(a, at) ==
    CASE a = "energy" /\ at = "preprocessed" -> {"mode_name"}
      [] a = "energy" /\ at = "energy_analyzed" -> {"mode_name"}
      [] a = "energy" /\ at = "efficiency_analyzed" -> ModeStatsColumns \cap DerivedColumns
      [] a = "tradeoff" /\ at = "preprocessed" ->
             {"mode_name", "total_tokens", "energy_per_token", "tokens_per_wh"}
      [] a = "tradeoff" /\ at = "efficiency_analyzed" -> {"mode_name", "total_tokens"}
      [] a = "tradeoff" /\ at = "quality_analyzed" -> TradeOffColumns \cap DerivedColumns
      [] OTHER -> {}

\* C30: at every position of run_analysis the derived columns that the next
\* step reads have been made by an earlier step, so that no step reads a
\* derived column that the table does not have yet.
C30_DerivedBeforeRead == DerivedColumnsRead(analyzer, pc) \subseteq columns

\* the same for runs whose Prompts.json is present and has the chatMode column
C30_DerivedBeforeReadOfFullInput ==
    (prompts_found /\ "chatMode" \in FrameColumns(prompts)) => C30_DerivedBeforeRead

====
